---- MODULE Spec2Model ----
(***************************************************************************)
(* A model of the stardust Store (src/src/store.cpp) over its LMDB         *)
(* environment (src/src/env.cpp) and of the RPC write batch                *)
(* (src/src/server.cpp).                                                   *)
(*                                                                         *)
(* db is the committed content of the environment: one field per named     *)
(* table of Env.  A table is a function from its key to its value; the     *)
(* two adjacency indexes and labelIndex, whose values are empty, are sets  *)
(* of keys.  A key is the tuple of the big-endian fields encode.hpp        *)
(* concatenates, so the byte order of a key is the lexicographic order of  *)
(* its tuple.  A table that holds an encoded record (nodes, edgesById, the *)
(* property rows) is modelled by the record its decoder yields.            *)
(*                                                                         *)
(* Every Store operation is an operator from the state its transaction     *)
(* starts in to an outcome [ok, commit, st, ret, err]: st is the state the *)
(* transaction has written when the call returns or throws.  The argument  *)
(* f injects a failure of the engine: f = k makes the k-th stage of the    *)
(* operation throw (its puts, deletes or its commit), f = 0 none.          *)
(* RunTxn then ends the transaction as Txn does: commit() publishes st,    *)
(* the destructor of a Txn that was not committed aborts.                  *)
(*                                                                         *)
(* last is the outcome of the latest call as its caller sees it.           *)
(*                                                                         *)
(* thr is the position of each thread that has a call in flight: what it   *)
(* has read or opened so far, when a call is run in more steps than one    *)
(* (the two read transactions of degree and listAdjacency, a write         *)
(* transaction that waits for the writer lock, the handles of Txn, the     *)
(* cursors of a scan).  A call that is run as one step leaves it idle.     *)
(*                                                                         *)
(* The sequences are uint64_t and a dictionary id is their uint32_t cast.  *)
(* The counters of the model stay below the bounds Max*Seq, far from 2^32, *)
(* so the increment and the cast are written without their wrap-around.    *)
(***************************************************************************)
EXTENDS Integers, Sequences, FiniteSets, TLC

VARIABLES db, last, thr

vars == <<db, last, thr>>

\* -------------------------------------------------------------------------
\* Bounds of the model
\* -------------------------------------------------------------------------

\* createNode is not called once nodeSeq has reached MaxNodeSeq
MaxNodeSeq == 2
\* addEdge is not called once edgeSeq has reached MaxEdgeSeq
MaxEdgeSeq == 2
\* getOrCreate*Id does not create once the namespace's sequence is MaxDictSeq
MaxDictSeq == 2

\* -------------------------------------------------------------------------
\* Tables
\* -------------------------------------------------------------------------

EmptyTbl == [k \in {} |-> 0]

\* mdb_get: MDB_NOTFOUND when the key is absent
Has(t, k) == k \in DOMAIN t

\* mdb_put with flags 0: insert or overwrite
Put(t, k, v) == [x \in (DOMAIN t) \cup {k} |-> IF x = k THEN v ELSE t[x]]

\* mdb_del: the row is removed; MDB_NOTFOUND is tolerated by every caller
Del(t, k) == [x \in (DOMAIN t) \ {k} |-> t[x]]

\* a cursor delete of every row whose key starts with the major id
\* (MDB_SET_RANGE at (major, 0), mdb_cursor_del, MDB_NEXT until the major changes)
DelPrefix(t, major) == [x \in {y \in DOMAIN t : y[1] # major} |-> t[x]]

Range(s) == {s[i] : i \in DOMAIN s}

Min(S) == CHOOSE x \in S : \A y \in S : x <= y

RECURSIVE SortSet(_)
SortSet(S) == IF S = {} THEN <<>> ELSE <<Min(S)>> \o SortSet(S \ {Min(S)})

\* lexicographic order of two key tuples of the same length
RECURSIVE LexLess(_, _)
LexLess(a, b) ==
  IF a = <<>> THEN FALSE
  ELSE IF Head(a) # Head(b) THEN Head(a) < Head(b)
  ELSE LexLess(Tail(a), Tail(b))

LexMin(S) == CHOOSE x \in S : \A y \in S : x = y \/ LexLess(x, y)

\* the rows of a cursor scan, in key order
RECURSIVE SortKeys(_)
SortKeys(S) == IF S = {} THEN <<>> ELSE <<LexMin(S)>> \o SortKeys(S \ {LexMin(S)})

\* -------------------------------------------------------------------------
\* Outcomes and transactions
\* -------------------------------------------------------------------------

\* what a call that returns void, or that throws, hands to its caller
Void == [void |-> TRUE]

\* the call returned after tx.commit()
Ok(s, r) == [ok |-> TRUE, commit |-> TRUE, st |-> s, ret |-> r, err |-> "none"]

\* the call returned a value without committing its transaction
OkNoCommit(s, r) == [ok |-> TRUE, commit |-> FALSE, st |-> s, ret |-> r, err |-> "none"]

\* the call threw MdbError(e); the Txn leaves scope uncommitted ("Commit": the
\* throw is that of tx.commit())
Throw(s, e) == [ok |-> FALSE, commit |-> FALSE, st |-> s, ret |-> Void, err |-> e]

\* Txn::commit: mdb_txn_commit publishes what the transaction wrote, or fails
\* and discards it; either way the handle is cleared before the throw
Txn_commit(committed, working, rc) == IF rc = 0 THEN working ELSE committed

\* a destructor that ends the transaction by committing it
Txn_dtor_keeps(committed, working) == working

\* Txn::~Txn: a transaction that was not committed is aborted
Txn_dtor(committed, working) == committed

\* the environment after a call that ran in one Txn begun on `committed`
RunTxn(committed, r) ==
  [r EXCEPT !.st = IF r.commit THEN Txn_commit(committed, r.st, 0)
                   ELSE IF r.err = "Commit" THEN Txn_commit(committed, r.st, 1)
                   ELSE Txn_dtor(committed, r.st)]

\* -------------------------------------------------------------------------
\* Meta sequences
\* -------------------------------------------------------------------------

read_u64_or(s, key, fallback) == IF Has(s.meta, key) THEN s.meta[key] ELSE fallback

ensure_schema_version(s) ==
  IF Has(s.meta, "schemaVersion") THEN s
  ELSE [s EXCEPT !.meta = Put(s.meta, "schemaVersion", 1)]

incr_meta_seq_norewrite(s, key) ==
  LET s1 == ensure_schema_version(s)
  IN [st |-> s1, next |-> read_u64_or(s1, key, 0) + 1]

\* the state with the sequence advanced, and the id issued
incr_meta_seq(s, key) ==
  LET s1 == ensure_schema_version(s)
      next == read_u64_or(s1, key, 0) + 1
  IN [st |-> [s1 EXCEPT !.meta = Put(s1.meta, key, next)], next |-> next]

next_node_id(s) == incr_meta_seq(s, "nodeSeq")

next_edge_id(s) == incr_meta_seq(s, "edgeSeq")

\* -------------------------------------------------------------------------
\* Dictionaries
\* -------------------------------------------------------------------------

Namespaces == {"labels", "relTypes", "propKeys", "vecTags", "texts"}

IdsTbl(ns) ==
  CASE ns = "labels" -> "labelIds"
    [] ns = "relTypes" -> "relTypeIds"
    [] ns = "propKeys" -> "propKeyIds"
    [] ns = "vecTags" -> "vecTagIds"
    [] ns = "texts" -> "textIds"

ByNameTbl(ns) ==
  CASE ns = "labels" -> "labelsByName"
    [] ns = "relTypes" -> "relTypesByName"
    [] ns = "propKeys" -> "propKeysByName"
    [] ns = "vecTags" -> "vecTagsByName"
    [] ns = "texts" -> "textsByName"

SeqKey(ns) ==
  CASE ns = "labels" -> "labelSeq"
    [] ns = "relTypes" -> "relTypeSeq"
    [] ns = "propKeys" -> "propKeySeq"
    [] ns = "vecTags" -> "vecTagSeq"
    [] ns = "texts" -> "textSeq"

\* 0 stands for std::nullopt; a stored id is never looked up as absent
lookup_id_by_name(s, byName, name) == IF Has(s[byName], name) THEN s[byName][name] ELSE 0

\* a lookup that never finds the name
FoundByName_never(s, byName, name) == FALSE

FoundByName(s, byName, name) == Has(s[byName], name)

\* the first mdb_put of write_name_id_pair: id -> name in the ids table
write_id_name(s, ids, id, name) == [s EXCEPT ![ids] = Put(s[ids], id, name)]

write_name_id_pair_idonly(s, ids, byName, id, name) == write_id_name(s, ids, id, name)

\* id -> name in the ids table, then name -> id in the byName table
write_name_id_pair(s, ids, byName, id, name) ==
  LET s1 == write_id_name(s, ids, id, name)
  IN [s1 EXCEPT ![byName] = Put(s1[byName], name, id)]

\* a getOrCreate that creates the missing name whatever createIfMissing says
getOrCreateId_alwayscreates(s, ns, name, createIfMissing, f) ==
  IF name = "" THEN Throw(s, "BadValSize")
  ELSE IF FoundByName(s, ByNameTbl(ns), name)
    THEN OkNoCommit(s, [id |-> lookup_id_by_name(s, ByNameTbl(ns), name)])
  ELSE LET a == incr_meta_seq(s, SeqKey(ns))
       IN Ok(write_name_id_pair(a.st, IdsTbl(ns), ByNameTbl(ns), a.next, name),
             [id |-> a.next])

\* the common body of getOrCreateLabelId, RelTypeId, PropKeyId and TextId.
\* mdb_get refuses a key of length 0, so the lookup of the empty name throws.
\* stages: 1 incr_meta_seq, 2 put ids, 3 put byName, 4 commit
getOrCreateId(s, ns, name, createIfMissing, f) ==
  IF name = "" THEN Throw(s, "BadValSize")
  ELSE IF FoundByName(s, ByNameTbl(ns), name)
    THEN OkNoCommit(s, [id |-> lookup_id_by_name(s, ByNameTbl(ns), name)])
  ELSE IF ~createIfMissing THEN Throw(s, "NotFound")
  ELSE LET a == incr_meta_seq(s, SeqKey(ns))
           id == a.next
           s1 == write_id_name(a.st, IdsTbl(ns), id, name)
           s2 == write_name_id_pair(a.st, IdsTbl(ns), ByNameTbl(ns), id, name)
       IN IF f = 1 THEN Throw(s, "Engine")
          ELSE IF f = 2 THEN Throw(a.st, "Engine")
          ELSE IF f = 3 THEN Throw(s1, "Engine")
          ELSE IF f = 4 THEN Throw(s2, "Commit")
          ELSE Ok(s2, [id |-> id])

getOrCreateLabelId(s, name, createIfMissing, f) ==
  getOrCreateId(s, "labels", name, createIfMissing, f)

getOrCreateTextId(s, name, createIfMissing, f) ==
  getOrCreateId(s, "texts", name, createIfMissing, f)

getOrCreateRelTypeId(s, name, createIfMissing, f) ==
  getOrCreateId(s, "relTypes", name, createIfMissing, f)

getOrCreatePropKeyId(s, name, createIfMissing, f) ==
  getOrCreateId(s, "propKeys", name, createIfMissing, f)

\* dim = 0 stands for an absent optional (the RPC layer never passes 0).
\* stages: 1 incr_meta_seq, 2 put vecTagIds, 3 put vecTagsByName,
\* 4 put vecTagMeta (when a dim is given), 5 commit
getOrCreateVecTagId(s, name, createIfMissing, hasDim, dim, f) ==
  IF name = "" THEN Throw(s, "BadValSize")
  ELSE IF FoundByName(s, "vecTagsByName", name)
    THEN OkNoCommit(s, [id |-> lookup_id_by_name(s, "vecTagsByName", name)])
  ELSE IF ~createIfMissing THEN Throw(s, "NotFound")
  ELSE LET a == incr_meta_seq(s, "vecTagSeq")
           id == a.next
           s1 == write_id_name(a.st, "vecTagIds", id, name)
           s2 == write_name_id_pair(a.st, "vecTagIds", "vecTagsByName", id, name)
           s3 == IF hasDim THEN [s2 EXCEPT !.vecTagMeta = Put(s2.vecTagMeta, id, dim)]
                 ELSE s2
       IN IF f = 1 THEN Throw(s, "Engine")
          ELSE IF f = 2 THEN Throw(a.st, "Engine")
          ELSE IF f = 3 THEN Throw(s1, "Engine")
          ELSE IF f = 4 /\ hasDim THEN Throw(s2, "Engine")
          ELSE IF f = 5 THEN Throw(s3, "Commit")
          ELSE Ok(s3, [id |-> id])

\* read_string_by_id, as getLabelName .. getTextName call it
read_string_by_id(s, ids, id) ==
  IF Has(s[ids], id) THEN OkNoCommit(s, [name |-> s[ids][id]]) ELSE Throw(s, "NotFound")

\* -------------------------------------------------------------------------
\* Node headers, properties, labels
\* -------------------------------------------------------------------------

\* a sort_unique that leaves the vector as the caller passed it
sort_unique_asis(v) == v

\* sort_unique: std::sort, then erase(std::unique)
sort_unique(v) == SortSet(Range(v))

\* std::lower_bound on a sorted vector: the first position whose element is >= id
lower_bound(v, id) ==
  IF \E i \in DOMAIN v : v[i] >= id
    THEN Min({i \in DOMAIN v : v[i] >= id})
  ELSE Len(v) + 1

\* vector::erase(it)
EraseAt(v, i) == SubSeq(v, 1, i - 1) \o SubSeq(v, i + 1, Len(v))

\* vector::insert(it, x)
InsertAt(v, i, x) == SubSeq(v, 1, i - 1) \o <<x>> \o SubSeq(v, i, Len(v))

\* setNodeLabels' removal loop over the sorted remove list
RECURSIVE RemoveLabels(_, _)
RemoveLabels(labelIds, rem) ==
  IF rem = <<>> THEN labelIds
  ELSE LET id == Head(rem)
           it == lower_bound(labelIds, id)
       IN RemoveLabels(IF it <= Len(labelIds) /\ labelIds[it] = id
                         THEN EraseAt(labelIds, it) ELSE labelIds,
                       Tail(rem))

\* an insertion loop without the test `it == end || *it != id`
RECURSIVE AddLabels_always(_, _)
AddLabels_always(labelIds, add) ==
  IF add = <<>> THEN labelIds
  ELSE AddLabels_always(InsertAt(labelIds, lower_bound(labelIds, Head(add)), Head(add)),
                        Tail(add))

\* setNodeLabels' insertion loop over the sorted add list
RECURSIVE AddLabels(_, _)
AddLabels(labelIds, add) ==
  IF add = <<>> THEN labelIds
  ELSE LET id == Head(add)
           it == lower_bound(labelIds, id)
       IN AddLabels(IF it > Len(labelIds) \/ labelIds[it] # id
                      THEN InsertAt(labelIds, it, id) ELSE labelIds,
                    Tail(add))

\* a loop of mdb_put(labelIndex, (labelId, node), empty)
PutLabelRows(idx, labelIds, node) == idx \cup {<<l, node>> : l \in Range(labelIds)}

\* a loop of mdb_del(labelIndex, (labelId, node))
DelLabelRows(idx, labelIds, node) == idx \ {<<l, node>> : l \in Range(labelIds)}

\* a loop of mdb_put(table, (major, p.keyId), encode_value(p.val)) in list order
RECURSIVE PutProps(_, _, _)
PutProps(t, major, props) ==
  IF props = <<>> THEN t
  ELSE PutProps(Put(t, <<major, Head(props).keyId>>, Head(props).val), major, Tail(props))

\* a loop of mdb_del(table, (major, keyId))
RECURSIVE DelProps(_, _, _)
DelProps(t, major, keys) ==
  IF keys = <<>> THEN t
  ELSE DelProps(Del(t, <<major, Head(keys)>>), major, Tail(keys))

\* the raw bytes of a VectorF32: whole 4-byte floats, then tail (0..3) more bytes
DataSize(data) == 4 * Len(data.f) + data.tail

\* createNode's loop of mdb_put(nodeVectors, (id, tagId), data): no check of the tag
RECURSIVE PutVectors(_, _, _)
PutVectors(t, id, vectors) ==
  IF vectors = <<>> THEN t
  ELSE PutVectors(Put(t, <<id, Head(vectors).tagId>>, Head(vectors).vector.data),
                  id, Tail(vectors))

\* upsertNodeProps: erase(remove_if(key in unset))
SelectHot(hot, unset) == SelectSeq(hot, LAMBDA p : p.keyId \notin unset)

\* upsertNodeProps: replace the first hot property of that key, or push_back
SetHotOne(hot, p) ==
  IF \E i \in DOMAIN hot : hot[i].keyId = p.keyId
    THEN LET i == Min({j \in DOMAIN hot : hot[j].keyId = p.keyId})
         IN [hot EXCEPT ![i] = [keyId |-> hot[i].keyId, val |-> p.val]]
  ELSE Append(hot, p)

RECURSIVE SetHot(_, _)
SetHot(hot, setHot) ==
  IF setHot = <<>> THEN hot ELSE SetHot(SetHotOne(hot, Head(setHot)), Tail(setHot))

\* -------------------------------------------------------------------------
\* Store: writes
\* -------------------------------------------------------------------------

\* stages: 1 next_node_id, 2 put nodes, 3 cold props, 4 vectors, 5 labelIndex,
\* 6 commit
createNode(s, params, f) ==
  LET a == next_node_id(s)
      id == a.next
      hdr == [id |-> id, labels |-> sort_unique(params.labels),
              hotProps |-> params.hotProps]
      s2 == [a.st EXCEPT !.nodes = Put(a.st.nodes, id, hdr)]
      s3 == [s2 EXCEPT !.nodeColdProps = PutProps(s2.nodeColdProps, id, params.coldProps)]
      s4 == [s3 EXCEPT !.nodeVectors = PutVectors(s3.nodeVectors, id, params.vectors)]
      s5 == [s4 EXCEPT !.labelIndex = PutLabelRows(s4.labelIndex, hdr.labels, id)]
  IN IF f = 1 THEN Throw(s, "Engine")
     ELSE IF f = 2 THEN Throw(a.st, "Engine")
     ELSE IF f = 3 /\ params.coldProps # <<>> THEN Throw(s2, "Engine")
     ELSE IF f = 4 /\ params.vectors # <<>> THEN Throw(s3, "Engine")
     ELSE IF f = 5 /\ hdr.labels # <<>> THEN Throw(s4, "Engine")
     ELSE IF f = 6 THEN Throw(s5, "Commit")
     ELSE Ok(s5, [id |-> id, header |-> hdr])

\* stages: 1 put nodes, 2 cold puts, 3 cold deletes, 4 commit
upsertNodeProps(s, params, f) ==
  IF ~Has(s.nodes, params.id) THEN Throw(s, "NotFound")
  ELSE
    LET hdr == s.nodes[params.id]
        hot1 == IF params.unsetKeys # <<>>
                  THEN SelectHot(hdr.hotProps, Range(sort_unique(params.unsetKeys)))
                ELSE hdr.hotProps
        hot2 == SetHot(hot1, params.setHot)
        s1 == [s EXCEPT !.nodes = Put(s.nodes, params.id, [hdr EXCEPT !.hotProps = hot2])]
        s2 == [s1 EXCEPT !.nodeColdProps =
                 PutProps(s1.nodeColdProps, params.id, params.setCold)]
        s3 == [s2 EXCEPT !.nodeColdProps =
                 DelProps(s2.nodeColdProps, params.id, params.unsetKeys)]
    IN IF f = 1 THEN Throw(s, "Engine")
       ELSE IF f = 2 /\ params.setCold # <<>> THEN Throw(s1, "Engine")
       ELSE IF f = 3 /\ params.unsetKeys # <<>> THEN Throw(s2, "Engine")
       ELSE IF f = 4 THEN Throw(s3, "Commit")
       ELSE Ok(s3, Void)

\* stages: 1 put nodes, 2 labelIndex puts, 3 labelIndex deletes, 4 commit
setNodeLabels(s, params, f) ==
  IF ~Has(s.nodes, params.id) THEN Throw(s, "NotFound")
  ELSE
    LET hdr == s.nodes[params.id]
        cur == sort_unique(hdr.labels)
        add == sort_unique(params.addLabels)
        rem == sort_unique(params.removeLabels)
        labelIds == AddLabels(RemoveLabels(cur, rem), add)
        s1 == [s EXCEPT !.nodes = Put(s.nodes, params.id, [hdr EXCEPT !.labels = labelIds])]
        s2 == [s1 EXCEPT !.labelIndex = PutLabelRows(s1.labelIndex, add, params.id)]
        s3 == [s2 EXCEPT !.labelIndex = DelLabelRows(s2.labelIndex, rem, params.id)]
    IN IF f = 1 THEN Throw(s, "Engine")
       ELSE IF f = 2 /\ add # <<>> THEN Throw(s1, "Engine")
       ELSE IF f = 3 /\ rem # <<>> THEN Throw(s2, "Engine")
       ELSE IF f = 4 THEN Throw(s3, "Commit")
       ELSE Ok(s3, Void)

upsertVector_nocheck(s, params, f) ==
  LET enforcedDim == DataSize(params.vector.data) \div 4
      s1 == [s EXCEPT !.vecTagMeta = Put(s.vecTagMeta, params.tagId, enforcedDim)]
      s2 == [s1 EXCEPT !.nodeVectors =
               Put(s1.nodeVectors, <<params.id, params.tagId>>, params.vector.data)]
  IN IF f # 0 THEN Throw(s1, "Engine") ELSE Ok(s2, Void)

\* stages: 1 put vecTagMeta (when the tag has none), 2 put nodeVectors, 3 commit
upsertVector(s, params, f) ==
  LET data == params.vector.data
      dimFromBytes == DataSize(data) \div 4
      enforcedDim == dimFromBytes
      absent == ~Has(s.vecTagMeta, params.tagId)
      s1 == IF absent
              THEN [s EXCEPT !.vecTagMeta = Put(s.vecTagMeta, params.tagId, enforcedDim)]
            ELSE s
      s2 == [s1 EXCEPT !.nodeVectors =
               Put(s1.nodeVectors, <<params.id, params.tagId>>, data)]
  IN IF DataSize(data) % 4 # 0 THEN Throw(s, "InvalidArgument")
     ELSE IF params.vector.dim # 0 /\ params.vector.dim # dimFromBytes
       THEN Throw(s, "DimMismatch")
     ELSE IF ~absent /\ s.vecTagMeta[params.tagId] # enforcedDim
       THEN Throw(s, "DimMismatch")
     ELSE IF f = 1 /\ absent THEN Throw(s, "Engine")
     ELSE IF f = 2 THEN Throw(s1, "Engine")
     ELSE IF f = 3 THEN Throw(s2, "Commit")
     ELSE Ok(s2, Void)

\* a deleteVector that commits without deleting the row
deleteVector_keeps(s, params, f) == Ok(s, Void)

\* stages: 1 del nodeVectors, 2 commit
deleteVector(s, params, f) ==
  LET s1 == [s EXCEPT !.nodeVectors = Del(s.nodeVectors, <<params.id, params.tagId>>)]
  IN IF f = 1 THEN Throw(s, "Engine")
     ELSE IF f = 2 THEN Throw(s1, "Commit")
     ELSE Ok(s1, Void)

\* -------------------------------------------------------------------------
\* Store: edges
\* -------------------------------------------------------------------------

\* key_edge_by_src_type_be(src, typeId, dst, edgeId)
key_edge_by_src_type_be(src, typeId, dst, edgeId) == <<src, typeId, dst, edgeId>>

\* key_edge_by_dst_type_be(dst, typeId, src, edgeId)
key_edge_by_dst_type_be(dst, typeId, src, edgeId) == <<dst, typeId, src, edgeId>>

\* an addEdge that raises when an endpoint has no header
addEdge_strict(s, params, f) ==
  IF ~Has(s.nodes, params.src) \/ ~Has(s.nodes, params.dst) THEN Throw(s, "NotFound")
  ELSE LET a == next_edge_id(s)
           ref == [id |-> a.next, src |-> params.src, dst |-> params.dst]
       IN Ok([a.st EXCEPT
                !.edgesById = Put(@, ref.id, ref),
                !.edgesBySrcType = @ \cup
                  {key_edge_by_src_type_be(ref.src, params.meta.typeId, ref.dst, ref.id)},
                !.edgesByDstType = @ \cup
                  {key_edge_by_dst_type_be(ref.dst, params.meta.typeId, ref.src, ref.id)},
                !.edgeProps = PutProps(@, ref.id, params.meta.props)], ref)

\* stages: 1 next_edge_id, 2 put edgesById, 3 put edgesBySrcType,
\* 4 put edgesByDstType, 5 edge props, 6 commit
addEdge(s, params, f) ==
  LET a == next_edge_id(s)
      eid == a.next
      ref == [id |-> eid, src |-> params.src, dst |-> params.dst]
      s2 == [a.st EXCEPT !.edgesById = Put(a.st.edgesById, eid, ref)]
      s3 == [s2 EXCEPT !.edgesBySrcType = s2.edgesBySrcType \cup
               {key_edge_by_src_type_be(ref.src, params.meta.typeId, ref.dst, ref.id)}]
      s4 == [s3 EXCEPT !.edgesByDstType = s3.edgesByDstType \cup
               {key_edge_by_dst_type_be(ref.dst, params.meta.typeId, ref.src, ref.id)}]
      s5 == [s4 EXCEPT !.edgeProps = PutProps(s4.edgeProps, ref.id, params.meta.props)]
  IN IF f = 1 THEN Throw(s, "Engine")
     ELSE IF f = 2 THEN Throw(a.st, "Engine")
     ELSE IF f = 3 THEN Throw(s2, "Engine")
     ELSE IF f = 4 THEN Throw(s3, "Engine")
     ELSE IF f = 5 /\ params.meta.props # <<>> THEN Throw(s4, "Engine")
     ELSE IF f = 6 THEN Throw(s5, "Commit")
     ELSE Ok(s5, ref)

\* an updateEdgeProps that raises when edgesById has no record of the edge
updateEdgeProps_strict(s, params, f) ==
  IF ~Has(s.edgesById, params.edgeId) THEN Throw(s, "NotFound")
  ELSE Ok([s EXCEPT !.edgeProps = DelProps(PutProps(@, params.edgeId, params.setProps),
                                           params.edgeId, params.unsetKeys)], Void)

\* stages: 1 edge prop puts, 2 edge prop deletes, 3 commit
updateEdgeProps(s, params, f) ==
  LET s1 == [s EXCEPT !.edgeProps = PutProps(s.edgeProps, params.edgeId, params.setProps)]
      s2 == [s1 EXCEPT !.edgeProps = DelProps(s1.edgeProps, params.edgeId, params.unsetKeys)]
  IN IF f = 1 /\ params.setProps # <<>> THEN Throw(s, "Engine")
     ELSE IF f = 2 /\ params.unsetKeys # <<>> THEN Throw(s1, "Engine")
     ELSE IF f = 3 THEN Throw(s2, "Commit")
     ELSE Ok(s2, Void)

\* the scan of edgesBySrcType from (src, 0, 0, 0) in deleteEdge: the typeId of the first row of src with this dst and
\* edge id, 0 when the scan ends without one
FoundType(s, ref) ==
  LET rows == {k \in s.edgesBySrcType : k[1] = ref.src /\ k[3] = ref.dst /\ k[4] = ref.id}
  IN IF rows = {} THEN 0 ELSE LexMin(rows)[2]

\* a deleteEdge that raises when edgesById has no record of the edge
deleteEdge_strict(s, params, f) ==
  IF ~Has(s.edgesById, params.edgeId) THEN Throw(s, "NotFound")
  ELSE Ok([s EXCEPT !.edgesBySrcType = {k \in @ : k[4] # params.edgeId},
                    !.edgesByDstType = {k \in @ : k[4] # params.edgeId},
                    !.edgesById = Del(@, params.edgeId),
                    !.edgeProps = DelPrefix(@, params.edgeId)], Void)

\* stages: 1 del edgesBySrcType row, 2 del edgesByDstType row (both only when a
\* non-zero type was found), 3 del edgesById, 4 edgeProps cursor deletes,
\* 5 commit
deleteEdge(s, params, f) ==
  LET found == Has(s.edgesById, params.edgeId)
      ref == s.edgesById[params.edgeId]
      foundType == IF found THEN FoundType(s, ref) ELSE 0
      unlink == found /\ foundType # 0
      s1 == IF unlink
              THEN [s EXCEPT !.edgesBySrcType = @ \
                      {key_edge_by_src_type_be(ref.src, foundType, ref.dst, ref.id)}]
            ELSE s
      s2 == IF unlink
              THEN [s1 EXCEPT !.edgesByDstType = @ \
                      {key_edge_by_dst_type_be(ref.dst, foundType, ref.src, ref.id)}]
            ELSE s1
      s3 == [s2 EXCEPT !.edgesById = Del(s2.edgesById, params.edgeId)]
      s4 == [s3 EXCEPT !.edgeProps = DelPrefix(s3.edgeProps, params.edgeId)]
  IN IF f = 1 /\ unlink THEN Throw(s, "Engine")
     ELSE IF f = 2 /\ unlink THEN Throw(s1, "Engine")
     ELSE IF f = 3 THEN Throw(s2, "Engine")
     ELSE IF f = 4 /\ (\E k \in DOMAIN s3.edgeProps : k[1] = params.edgeId)
       THEN Throw(s3, "Engine")
     ELSE IF f = 5 THEN Throw(s4, "Commit")
     ELSE Ok(s4, Void)

\* a loop of DelPrefix(edgeProps, eid) and Del(edgesById, eid) over the
\* collected edge ids (the order of an unordered_set does not show in the result)
DelEdgeRecords(s, eids) ==
  [s EXCEPT !.edgesById = [e \in (DOMAIN @) \ eids |-> @[e]],
            !.edgeProps = [k \in {y \in DOMAIN @ : y[1] \notin eids} |-> @[k]]]

deleteNode_srconly(s, params, f) ==
  LET s1 == IF Has(s.nodes, params.id)
              THEN [s EXCEPT !.labelIndex =
                      DelLabelRows(@, s.nodes[params.id].labels, params.id)]
            ELSE s
      s2 == [s1 EXCEPT !.nodes = Del(@, params.id)]
      srcRows == {k \in s2.edgesBySrcType : k[1] = params.id}
      s3 == [s2 EXCEPT
               !.edgesBySrcType = @ \ srcRows,
               !.edgesByDstType = @ \
                 {key_edge_by_dst_type_be(k[3], k[2], k[1], k[4]) : k \in srcRows}]
      s5 == DelEdgeRecords(s3, {k[4] : k \in srcRows})
      s6 == [s5 EXCEPT !.nodeColdProps = DelPrefix(@, params.id)]
      s7 == [s6 EXCEPT !.nodeVectors = DelPrefix(@, params.id)]
  IN IF f # 0 THEN Throw(s3, "Engine") ELSE Ok(s7, Void)

\* stages: 1 labelIndex deletes, 2 del nodes, 3 the scan of edgesBySrcType
\* (cursor delete of each row of src = id and mdb_del of its mirror),
\* 4 the scan of edgesByDstType (the same for the rows of dst = id that are
\* left), 5 edgesById and edgeProps of the collected ids, 6 cold props,
\* 7 vectors, 8 del nodes again, 9 commit
deleteNode(s, params, f) ==
  LET live == Has(s.nodes, params.id)
      s1 == IF live
              THEN [s EXCEPT !.labelIndex =
                      DelLabelRows(@, s.nodes[params.id].labels, params.id)]
            ELSE s
      s2 == [s1 EXCEPT !.nodes = Del(@, params.id)]
      srcRows == {k \in s2.edgesBySrcType : k[1] = params.id}
      s3 == [s2 EXCEPT
               !.edgesBySrcType = @ \ srcRows,
               !.edgesByDstType = @ \
                 {key_edge_by_dst_type_be(k[3], k[2], k[1], k[4]) : k \in srcRows}]
      dstRows == {k \in s3.edgesByDstType : k[1] = params.id}
      s4 == [s3 EXCEPT
               !.edgesByDstType = @ \ dstRows,
               !.edgesBySrcType = @ \
                 {key_edge_by_src_type_be(k[3], k[2], k[1], k[4]) : k \in dstRows}]
      edgeIdsToDelete == {k[4] : k \in srcRows} \cup {k[4] : k \in dstRows}
      s5 == DelEdgeRecords(s4, edgeIdsToDelete)
      s6 == [s5 EXCEPT !.nodeColdProps = DelPrefix(@, params.id)]
      s7 == [s6 EXCEPT !.nodeVectors = DelPrefix(@, params.id)]
      s8 == [s7 EXCEPT !.nodes = Del(@, params.id)]
  IN IF f = 1 /\ live /\ s.nodes[params.id].labels # <<>> THEN Throw(s, "Engine")
     ELSE IF f = 2 THEN Throw(s1, "Engine")
     ELSE IF f = 3 /\ srcRows # {} THEN Throw(s2, "Engine")
     ELSE IF f = 4 /\ dstRows # {} THEN Throw(s3, "Engine")
     ELSE IF f = 5 /\ edgeIdsToDelete # {} THEN Throw(s4, "Engine")
     ELSE IF f = 6 /\ (\E k \in DOMAIN s5.nodeColdProps : k[1] = params.id)
       THEN Throw(s5, "Engine")
     ELSE IF f = 7 /\ (\E k \in DOMAIN s6.nodeVectors : k[1] = params.id)
       THEN Throw(s6, "Engine")
     ELSE IF f = 8 THEN Throw(s7, "Engine")
     ELSE IF f = 9 THEN Throw(s8, "Commit")
     ELSE Ok(s8, Void)

\* -------------------------------------------------------------------------
\* Store: reads
\* -------------------------------------------------------------------------

getNode(s, id) ==
  IF Has(s.nodes, id) THEN OkNoCommit(s, [header |-> s.nodes[id]])
  ELSE Throw(s, "NotFound")

getEdge(s, edgeId) ==
  IF Has(s.edgesById, edgeId) THEN OkNoCommit(s, s.edgesById[edgeId])
  ELSE Throw(s, "NotFound")

\* the cold rows of getNodeProps' scan, or the rows of getEdgeProps' scan: the
\* rows of the table whose major id is `major`, in key order
RECURSIVE PropRows(_, _, _)
PropRows(t, major, keys) ==
  IF keys = <<>> THEN <<>>
  ELSE <<[keyId |-> Head(keys), val |-> t[<<major, Head(keys)>>]]>>
         \o PropRows(t, major, Tail(keys))

ScanProps(t, major) == PropRows(t, major, SortSet({k[2] : k \in {r \in DOMAIN t : r[1] = major}}))

\* a lookup by key that takes the cold row first, the hot property only when
\* there is no cold row
RECURSIVE NodePropsByKey_cold(_, _, _, _)
NodePropsByKey_cold(s, hdr, id, keyIds) ==
  IF keyIds = <<>> THEN <<>>
  ELSE LET keyId == Head(keyIds)
           hot == SelectSeq(hdr.hotProps, LAMBDA p : p.keyId = keyId)
           one == IF Has(s.nodeColdProps, <<id, keyId>>)
                    THEN <<[keyId |-> keyId, val |-> s.nodeColdProps[<<id, keyId>>]]>>
                  ELSE IF hot # <<>> THEN <<Head(hot)>>
                  ELSE <<>>
       IN one \o NodePropsByKey_cold(s, hdr, id, Tail(keyIds))

\* getNodeProps with a key list: per key, the first hot property of that key,
\* else the cold row if there is one
RECURSIVE NodePropsByKey(_, _, _, _)
NodePropsByKey(s, hdr, id, keyIds) ==
  IF keyIds = <<>> THEN <<>>
  ELSE LET keyId == Head(keyIds)
           hot == SelectSeq(hdr.hotProps, LAMBDA p : p.keyId = keyId)
           one == IF hot # <<>> THEN <<Head(hot)>>
                  ELSE IF Has(s.nodeColdProps, <<id, keyId>>)
                    THEN <<[keyId |-> keyId, val |-> s.nodeColdProps[<<id, keyId>>]]>>
                  ELSE <<>>
       IN one \o NodePropsByKey(s, hdr, id, Tail(keyIds))

getNodeProps(s, params) ==
  IF ~Has(s.nodes, params.id) THEN Throw(s, "NotFound")
  ELSE LET hdr == s.nodes[params.id]
       IN IF params.keyIds = <<>>
            THEN OkNoCommit(s, [props |-> hdr.hotProps \o ScanProps(s.nodeColdProps, params.id)])
          ELSE OkNoCommit(s, [props |-> NodePropsByKey(s, hdr, params.id, params.keyIds)])

\* the TaggedVector that getVectors builds from a row: dim is the uint16_t cast
\* of vecTagMeta[tagId], 0 when the tag has none
VectorOf(s, id, tagId) ==
  [tagId |-> tagId,
   vector |-> [dim |-> IF Has(s.vecTagMeta, tagId) THEN s.vecTagMeta[tagId] % 65536 ELSE 0,
               data |-> s.nodeVectors[<<id, tagId>>]]]

\* getVectors with a tag list: per tagId of the list, the row if there is one
RECURSIVE VectorsByTag(_, _, _)
VectorsByTag(s, id, tagIds) ==
  IF tagIds = <<>> THEN <<>>
  ELSE (IF Has(s.nodeVectors, <<id, Head(tagIds)>>) THEN <<VectorOf(s, id, Head(tagIds))>>
        ELSE <<>>) \o VectorsByTag(s, id, Tail(tagIds))

\* no read of nodes[id]: a node without a header has the vectors its rows hold
getVectors(s, params) ==
  IF params.tagIds = <<>>
    THEN OkNoCommit(s, [vectors |-> VectorsByTag(s, params.id,
           SortSet({k[2] : k \in {r \in DOMAIN s.nodeVectors : r[1] = params.id}}))])
  ELSE OkNoCommit(s, [vectors |-> VectorsByTag(s, params.id, params.tagIds)])

\* getEdgeProps with a key list: per key, the row if there is one
RECURSIVE EdgePropsByKey(_, _, _)
EdgePropsByKey(s, edgeId, keyIds) ==
  IF keyIds = <<>> THEN <<>>
  ELSE (IF Has(s.edgeProps, <<edgeId, Head(keyIds)>>)
          THEN <<[keyId |-> Head(keyIds), val |-> s.edgeProps[<<edgeId, Head(keyIds)>>]]>>
        ELSE <<>>) \o EdgePropsByKey(s, edgeId, Tail(keyIds))

\* no read of edgesById[edgeId]
getEdgeProps(s, params) ==
  IF params.keyIds = <<>>
    THEN OkNoCommit(s, [props |-> ScanProps(s.edgeProps, params.edgeId)])
  ELSE OkNoCommit(s, [props |-> EdgePropsByKey(s, params.edgeId, params.keyIds)])

\* the loop of scanNodesByLabel over the rows of the label, in key order: the
\* limit (0: none) is tested before each row
RECURSIVE ScanLabelRows(_, _, _)
ScanLabelRows(out, rows, limit) ==
  IF rows = <<>> THEN out
  ELSE IF limit # 0 /\ Len(out) >= limit THEN out
  ELSE ScanLabelRows(Append(out, Head(rows)[2]), Tail(rows), limit)

scanNodesByLabel(s, params) ==
  OkNoCommit(s, [nodeIds |-> ScanLabelRows(<<>>,
                   SortKeys({k \in s.labelIndex : k[1] = params.labelId}), params.limit)])

\* countDir of degree: the rows of the index whose major id is node
countDir(s, node, outgoing) ==
  Cardinality({k \in (IF outgoing THEN s.edgesBySrcType ELSE s.edgesByDstType) : k[1] = node})

\* sOut and sIn are the snapshots of the read transaction of each countDir
degree(sOut, sIn, params) ==
  OkNoCommit(sIn,
    [count |-> (IF params.direction \in {"Out", "Both"}
                  THEN countDir(sOut, params.node, TRUE) ELSE 0)
               + (IF params.direction \in {"In", "Both"}
                    THEN countDir(sIn, params.node, FALSE) ELSE 0)])

\* getLabelName, getRelTypeName, getPropKeyName, getVecTagName, getTextName:
\* a read transaction around read_string_by_id on the namespace's ids table
getName(s, ns, id) == read_string_by_id(s, IdsTbl(ns), id)

\* one scan of listAdjacency: the rows of the index whose major id is node,
\* in key order, appended to items until items holds limit rows (0: no limit)
RECURSIVE ScanAppend(_, _, _, _)
ScanAppend(items, rows, limit, dir) ==
  IF rows = <<>> THEN items
  ELSE IF limit # 0 /\ Len(items) >= limit THEN items
  ELSE ScanAppend(Append(items, [neighborId |-> Head(rows)[3], edgeId |-> Head(rows)[4],
                                 typeId |-> Head(rows)[2], direction |-> dir]),
                  Tail(rows), limit, dir)

\* a scan that reads the index by source for both directions
scan_src(s, items, node, limit, outgoing) ==
  ScanAppend(items, SortKeys({k \in s.edgesBySrcType : k[1] = node}), limit,
             IF outgoing THEN "Out" ELSE "In")

scan(s, items, node, limit, outgoing) ==
  LET idx == IF outgoing THEN s.edgesBySrcType ELSE s.edgesByDstType
  IN ScanAppend(items, SortKeys({k \in idx : k[1] = node}), limit,
                IF outgoing THEN "Out" ELSE "In")

\* sOut and sIn are the snapshots of the read transaction of each scan
listAdjacency(sOut, sIn, params) ==
  LET o == IF params.direction \in {"Out", "Both"}
             THEN scan(sOut, <<>>, params.node, params.limit, TRUE) ELSE <<>>
      i == IF (params.limit = 0 \/ Len(o) < params.limit)
              /\ params.direction \in {"In", "Both"}
             THEN scan(sIn, o, params.node, params.limit, FALSE) ELSE o
  IN IF params.limit # 0 /\ Len(i) > params.limit THEN SubSeq(i, 1, params.limit) ELSE i

\* -------------------------------------------------------------------------
\* KNN: the scan of nodeVectors with a heap of at most k candidates
\* -------------------------------------------------------------------------

RECURSIVE GCD(_, _)
GCD(a, b) == IF b = 0 THEN a ELSE GCD(b, a % b)

\* the loop of dot_product_norm_scalar over the first dim floats of x and y
RECURSIVE dot_product_norm_scalar(_, _, _)
dot_product_norm_scalar(x, y, dim) ==
  IF dim = 0 THEN [dot |-> 0, norm2 |-> 0]
  ELSE LET r == dot_product_norm_scalar(x, y, dim - 1)
       IN [dot |-> r.dot + x[dim] * y[dim], norm2 |-> r.norm2 + y[dim] * y[dim]]

\* the float 0.0f
ZeroScore == [sgn |-> 0, num |-> 0, den |-> 1]

\* the float dot / (qnorm * xnorm), given the squares of the two norms: kept as
\* its sign and its square num / den in lowest terms, so that equal quotients
\* are equal values
Quotient(dot, qnorm2, xnorm2) ==
  IF dot = 0 THEN ZeroScore
  ELSE LET n == dot * dot
           d == qnorm2 * xnorm2
           g == GCD(n, d)
       IN [sgn |-> IF dot > 0 THEN 1 ELSE -1, num |-> n \div g, den |-> d \div g]

\* a > b on two scores
Greater(a, b) == a.sgn * a.num * b.den > b.sgn * b.num * a.den

\* the square of qnorm: sqrt(sum of squares), and 1.0 when that is 0.0
qnorm(q, dim) ==
  LET qnorm2 == dot_product_norm_scalar(q, q, dim).norm2
  IN IF qnorm2 = 0 THEN 1 ELSE qnorm2

\* the score of a stored vector: 0.0f unless xnorm > 0
score(q, vf, dim) ==
  LET r == dot_product_norm_scalar(q, vf, dim)
  IN IF r.norm2 > 0 THEN Quotient(r.dot, qnorm(q, dim), r.norm2) ELSE ZeroScore

\* struct Cand
Cand(id, sc) == [id |-> id, score |-> sc]

\* the candidates that topK.top() may be: priority_queue keeps one of the
\* smallest scores on top, and which one among equal scores is not specified
top(topK) == {m \in topK : \A o \in topK : ~Greater(m.score, o.score)}

\* a consider that keeps the first k candidates
consider_first(topK, c, k) ==
  IF Cardinality(topK) < k THEN {topK \cup {c}} ELSE {topK}

\* the lambda consider: the heaps that can result from one call
consider(topK, c, k) ==
  IF Cardinality(topK) < k THEN {topK \cup {c}}
  ELSE IF \E m \in top(topK) : Greater(c.score, m.score)
    THEN {(topK \ {m}) \cup {c} : m \in top(topK)}
  ELSE {topK}

\* the rows the scan considers, in key order: those of the tag whose value has
\* 4 * dim bytes, each with its score
Candidates(s, tagId, q, dim) ==
  LET rows == SortKeys({r \in DOMAIN s.nodeVectors :
                          r[2] = tagId /\ DataSize(s.nodeVectors[r]) = 4 * dim})
  IN [i \in DOMAIN rows |-> Cand(rows[i][1], score(q, s.nodeVectors[rows[i]].f, dim))]

\* the cursor loop: consider on each candidate in turn
RECURSIVE ScanAll(_, _, _)
ScanAll(cands, heaps, k) ==
  IF cands = <<>> THEN heaps
  ELSE ScanAll(Tail(cands), UNION {consider(h, Head(cands), k) : h \in heaps}, k)

\* popping the heap into results and reversing them
RECURSIVE Drain(_)
Drain(topK) ==
  IF topK = {} THEN {<<>>}
  ELSE UNION {{r \o <<m>> : r \in Drain(topK \ {m})} : m \in top(topK)}

\* a knn that trusts the dimension the query declares
QueryDimDiffers_never(query, dim) == FALSE

\* the query declares a dimension, and not that of the tag
QueryDimDiffers(query, dim) == query.dim # 0 /\ query.dim # dim

\* the outcomes of knn: one per order in which equal scores can leave the heap
knn(s, params) ==
  IF params.k = 0 THEN {OkNoCommit(s, [hits |-> <<>>])}
  ELSE IF DataSize(params.query.data) % 4 # 0 THEN {Throw(s, "InvalidArgument")}
  ELSE IF ~Has(s.vecTagMeta, params.tagId) THEN {OkNoCommit(s, [hits |-> <<>>])}
  ELSE
    LET dim == s.vecTagMeta[params.tagId]
    IN IF QueryDimDiffers(params.query, dim) THEN {Throw(s, "DimMismatch")}
       ELSE IF DataSize(params.query.data) \div 4 # dim THEN {Throw(s, "InvalidArgument")}
       ELSE LET cands == Candidates(s, params.tagId, params.query.data.f, dim)
                heaps == ScanAll(cands, {{}}, params.k)
            IN {OkNoCommit(s, [hits |-> r]) : r \in UNION {Drain(h) : h \in heaps}}

\* -------------------------------------------------------------------------
\* State and calls
\* -------------------------------------------------------------------------

\* the two tables of the texts namespace, which store.cpp reaches through
\* env.textIds() and env.textsByName(); env.cpp does not show their opening
EnvTextTables == [textIds |-> EmptyTbl, textsByName |-> EmptyTbl]

\* a fresh environment: Env::Env opens every table, all of them empty
EmptyDb ==
  [meta |-> EmptyTbl, nodes |-> EmptyTbl, nodeColdProps |-> EmptyTbl,
   nodeVectors |-> EmptyTbl, edgesBySrcType |-> {}, edgesByDstType |-> {},
   edgesById |-> EmptyTbl, edgeProps |-> EmptyTbl,
   labelIds |-> EmptyTbl, labelsByName |-> EmptyTbl,
   relTypeIds |-> EmptyTbl, relTypesByName |-> EmptyTbl,
   propKeyIds |-> EmptyTbl, propKeysByName |-> EmptyTbl,
   vecTagIds |-> EmptyTbl, vecTagsByName |-> EmptyTbl,
   textIds |-> EnvTextTables.textIds, textsByName |-> EnvTextTables.textsByName,
   vecTagMeta |-> EmptyTbl, labelIndex |-> {}]

\* the threads that call the Store: the RPC server's and the HTTP server's
Threads == {1, 2}

\* a thread that is in no call
Idle == [pc |-> "idle"]

\* a commit as the calls in flight meet it: a call that is between two of its
\* read transactions has one more committed state it could read
Committed(t, s) ==
  [u \in DOMAIN t |-> IF t[u].pc = "reading" THEN [t[u] EXCEPT !.seen = @ \cup {s}] ELSE t[u]]

Init ==
  /\ db = EmptyDb
  /\ last = [op |-> "init", ok |-> TRUE, err |-> "none", arg |-> Void, ret |-> Void]
  /\ thr = [t \in Threads |-> Idle]

\* a call of a Store operation that runs in one transaction: r is its outcome
Call(op, arg, r) ==
  \E o \in {r} :
    /\ db' = RunTxn(db, o).st
    /\ last' = [op |-> op, ok |-> o.ok, err |-> o.err, arg |-> arg, ret |-> o.ret]
    /\ thr' = Committed(thr, RunTxn(db, o).st)

\* ---- inputs ----

I64_1 == [t |-> "I64", v |-> 1]
Bool_T == [t |-> "Bool", v |-> TRUE]

NoVec == [dim |-> 0, data |-> [f |-> <<>>, tail |-> 0]]
\* 4 bytes, 8 bytes, 6 bytes; dim 0 is the undeclared dimension
Vec4 == [dim |-> 0, data |-> [f |-> <<1>>, tail |-> 0]]
Vec8 == [dim |-> 0, data |-> [f |-> <<1, 0>>, tail |-> 0]]
Vec6 == [dim |-> 0, data |-> [f |-> <<1>>, tail |-> 2]]
Vec4d1 == [dim |-> 1, data |-> [f |-> <<0>>, tail |-> 0]]
Vec4d2 == [dim |-> 2, data |-> [f |-> <<1>>, tail |-> 0]]

PlainNode == [labels |-> <<>>, hotProps |-> <<>>, coldProps |-> <<>>, vectors |-> <<>>]

\* ---- the public write operations ----

CreateNode(P, F) ==
  /\ read_u64_or(db, "nodeSeq", 0) < MaxNodeSeq
  /\ \E params \in P, f \in F : Call("createNode", params, createNode(db, params, f))

UpsertNodeProps(P, F) ==
  \E params \in P, f \in F : Call("upsertNodeProps", params, upsertNodeProps(db, params, f))

SetNodeLabels(P, F) ==
  \E params \in P, f \in F : Call("setNodeLabels", params, setNodeLabels(db, params, f))

UpsertVector(P, F) ==
  \E params \in P, f \in F : Call("upsertVector", params, upsertVector(db, params, f))

DeleteVector(P, F) ==
  \E params \in P, f \in F : Call("deleteVector", params, deleteVector(db, params, f))

AddEdge(P, F) ==
  /\ read_u64_or(db, "edgeSeq", 0) < MaxEdgeSeq
  /\ \E params \in P, f \in F : Call("addEdge", params, addEdge(db, params, f))

UpdateEdgeProps(P, F) ==
  \E params \in P, f \in F : Call("updateEdgeProps", params, updateEdgeProps(db, params, f))

DeleteNode(P, F) ==
  \E params \in P, f \in F : Call("deleteNode", params, deleteNode(db, params, f))

DeleteEdge(P, F) ==
  \E params \in P, f \in F : Call("deleteEdge", params, deleteEdge(db, params, f))

\* getOrCreateLabelId .. getOrCreateTextId; a missing name is created only while
\* the namespace's sequence is below MaxDictSeq
GetOrCreateId(NS, Names, F) ==
  \E ns \in NS, name \in Names, createIfMissing \in BOOLEAN, f \in F :
    /\ createIfMissing => read_u64_or(db, SeqKey(ns), 0) < MaxDictSeq
    /\ Call("getOrCreateId", [ns |-> ns, name |-> name, createIfMissing |-> createIfMissing],
            getOrCreateId(db, ns, name, createIfMissing, f))

GetOrCreateVecTagId(Names, Dims, F) ==
  \E name \in Names, createIfMissing \in BOOLEAN, dim \in Dims \cup {0}, f \in F :
    /\ createIfMissing => read_u64_or(db, "vecTagSeq", 0) < MaxDictSeq
    /\ Call("getOrCreateVecTagId",
            [name |-> name, createIfMissing |-> createIfMissing, dim |-> dim],
            getOrCreateVecTagId(db, name, createIfMissing, dim # 0, dim, f))

\* ---- the public read operations: db is left as it is ----

GetName(NS, Ids) ==
  \E ns \in NS, id \in Ids : Call("getName", [ns |-> ns, id |-> id], getName(db, ns, id))

GetNode(Ids) == \E id \in Ids : Call("getNode", [id |-> id], getNode(db, id))

GetNodeProps(P) == \E params \in P : Call("getNodeProps", params, getNodeProps(db, params))

GetVectors(P) == \E params \in P : Call("getVectors", params, getVectors(db, params))

GetEdge(Ids) == \E edgeId \in Ids : Call("getEdge", [edgeId |-> edgeId], getEdge(db, edgeId))

GetEdgeProps(P) == \E params \in P : Call("getEdgeProps", params, getEdgeProps(db, params))

\* -------------------------------------------------------------------------
\* Edges: createNode, addEdge, updateEdgeProps, deleteEdge, deleteNode
\* -------------------------------------------------------------------------

\* node ids a caller passes: 0 (never issued) and the ids createNode can issue
NodeIds == 0 .. MaxNodeSeq
EdgeIds == 1 .. MaxEdgeSeq
\* 0 is the typeId of a default EdgeMeta; the dictionary issues ids from 1
TypeIds == {0, 1}

EdgeParams ==
  {[src |-> a, dst |-> b, meta |-> [typeId |-> ty, props |-> pr]] :
     a \in {1, 2}, b \in {1, 2}, ty \in TypeIds, pr \in {<<>>, <<[keyId |-> 1, val |-> I64_1]>>}}

NextEdges ==
  \/ CreateNode({PlainNode}, {0})
  \/ AddEdge(EdgeParams, {0})
  \/ UpdateEdgeProps({[edgeId |-> e, setProps |-> <<[keyId |-> 2, val |-> Bool_T]>>,
                       unsetKeys |-> <<1>>] : e \in EdgeIds}, {0})
  \/ DeleteEdge({[edgeId |-> e] : e \in EdgeIds}, {0})
  \/ DeleteNode({[id |-> n] : n \in NodeIds}, {0})

SpecEdges == Init /\ [][NextEdges]_vars

SrcRowsOf(e) == {k \in db.edgesBySrcType : k[4] = e}
DstRowsOf(e) == {k \in db.edgesByDstType : k[4] = e}

\* the edge ids that occur in any of the three edge tables
KnownEdgeIds ==
  (DOMAIN db.edgesById) \cup {k[4] : k \in db.edgesBySrcType}
    \cup {k[4] : k \in db.edgesByDstType}

\* e has exactly one row in each index, and both carry the canonical (src, dst, e)
\* under one typeId
Indexed(e) ==
  /\ Cardinality(SrcRowsOf(e)) = 1
  /\ Cardinality(DstRowsOf(e)) = 1
  /\ Has(db.edgesById, e)
       => \E ty \in {k[2] : k \in SrcRowsOf(e)} :
            /\ SrcRowsOf(e) = {<<db.edgesById[e].src, ty, db.edgesById[e].dst, e>>}
            /\ DstRowsOf(e) = {<<db.edgesById[e].dst, ty, db.edgesById[e].src, e>>}

\* C1 (I1, edge symmetry): in every committed state, an edge id has a record in
\* edgesById if and only if it has exactly one row in edgesBySrcType and exactly
\* one row in edgesByDstType, both with the (src, dst, typeId, id) of the record.
C1_EdgeSymmetry == \A e \in KnownEdgeIds : Has(db.edgesById, e) <=> Indexed(e)

\* -------------------------------------------------------------------------
\* Labels: createNode, setNodeLabels, deleteNode
\* -------------------------------------------------------------------------

\* label id lists as a caller passes them: unsorted, with duplicates
LabelLists == {<<>>, <<1>>, <<2>>, <<2, 1>>, <<1, 1>>}

NextLabels ==
  \/ CreateNode({[PlainNode EXCEPT !.labels = ls] : ls \in LabelLists}, {0})
  \/ SetNodeLabels({[id |-> n, addLabels |-> a, removeLabels |-> r] :
                      n \in NodeIds, a \in LabelLists, r \in LabelLists}, {0})
  \/ DeleteNode({[id |-> n] : n \in NodeIds}, {0})

SpecLabels == Init /\ [][NextLabels]_vars

\* the label ids L with a row (L, n) in labelIndex
IndexedLabels(n) == {k[1] : k \in {r \in db.labelIndex : r[2] = n}}

\* C2 (I2, label-index consistency): in every committed state, the label set in
\* the header of every live node equals the set of label ids L with a row (L, n)
\* in labelIndex, and labelIndex has no row for a node that is not live.
C2_LabelIndexConsistent ==
  /\ \A n \in DOMAIN db.nodes : Range(db.nodes[n].labels) = IndexedLabels(n)
  /\ \A k \in db.labelIndex : Has(db.nodes, k[2])

\* -------------------------------------------------------------------------
\* Cascade delete
\* -------------------------------------------------------------------------

FullNode ==
  [labels |-> <<2, 1>>, hotProps |-> <<[keyId |-> 1, val |-> I64_1]>>,
   coldProps |-> <<[keyId |-> 2, val |-> Bool_T]>>,
   vectors |-> <<[tagId |-> 1, vector |-> Vec4]>>]

NextCascade ==
  \/ CreateNode({FullNode}, {0})
  \/ AddEdge({p \in EdgeParams : p.meta.props # <<>>}, {0})
  \/ UpdateEdgeProps({[edgeId |-> 1, setProps |-> <<[keyId |-> 2, val |-> Bool_T]>>,
                       unsetKeys |-> <<1>>]}, {0})
  \/ DeleteEdge({[edgeId |-> e] : e \in EdgeIds}, {0})
  \/ DeleteNode({[id |-> n] : n \in NodeIds}, {0})

SpecCascade == Init /\ [][NextCascade]_vars

\* the edge ids that have n as src or dst in state s, by the canonical record or
\* by a row of either index
IncidentEdges(s, n) ==
  {e \in DOMAIN s.edgesById : s.edgesById[e].src = n \/ s.edgesById[e].dst = n}
    \cup {k[4] : k \in {r \in s.edgesBySrcType : r[1] = n \/ r[3] = n}}
    \cup {k[4] : k \in {r \in s.edgesByDstType : r[1] = n \/ r[3] = n}}

\* no table of s refers to node n
NodeGone(s, n) ==
  /\ ~getNode(s, n).ok /\ getNode(s, n).err = "NotFound"
  /\ ~Has(s.nodes, n)
  /\ \A k \in DOMAIN s.nodeColdProps : k[1] # n
  /\ \A k \in DOMAIN s.nodeVectors : k[1] # n
  /\ \A k \in s.labelIndex : k[2] # n
  /\ \A k \in s.edgesBySrcType \cup s.edgesByDstType : k[1] # n /\ k[3] # n
  /\ \A d \in {"Out", "In", "Both"} :
       listAdjacency(s, s, [node |-> n, direction |-> d, limit |-> 0]) = <<>>

\* C3 (cascade delete): a deleteNode(n) that commits leaves getNode(n) raising
\* NotFound, no row of nodes, nodeColdProps, nodeVectors or labelIndex for n, no
\* adjacency row with n as major id or neighbor, every edge that had n as src or
\* dst absent from edgesById and without rows in edgeProps, and listAdjacency(n)
\* empty in every direction.
C3_CascadeDelete ==
  [][(last'.op = "deleteNode" /\ last'.ok)
       => /\ NodeGone(db', last'.arg.id)
          /\ \A e \in IncidentEdges(db, last'.arg.id) :
               /\ ~Has(db'.edgesById, e)
               /\ \A k \in DOMAIN db'.edgeProps : k[1] # e]_vars

\* node 1 was deleted after both edges had been added: no edge record, index
\* row or edge property is left, and node 2 keeps its labels and its vector
C3_Witness ==
  /\ last.op = "deleteNode" /\ last.ok /\ last.arg.id = 1
  /\ read_u64_or(db, "edgeSeq", 0) = 2
  /\ DOMAIN db.edgesById = {} /\ DOMAIN db.edgeProps = {}
  /\ db.edgesBySrcType = {} /\ db.edgesByDstType = {}
  /\ DOMAIN db.nodes = {2}
  /\ DOMAIN db.nodeVectors = {<<2, 1>>}
  /\ db.labelIndex = {<<1, 2>>, <<2, 2>>}

\* -------------------------------------------------------------------------
\* The RPC write batch (server.cpp)
\* -------------------------------------------------------------------------

\* the result of a step of the RPC layer: st is the committed state it leaves
Res(ok, s, val, err) == [ok |-> ok, st |-> s, val |-> val, err |-> err]

\* sequencing: e is evaluated, then F on its value
Then(e, F(_)) == CHOOSE y \in {F(x) : x \in {e}} : TRUE

\* one call of a Store operation from the RPC layer: its own transaction
StoreCall(s, r) == Then(r, LAMBDA o : Res(o.ok, RunTxn(s, o).st, o.ret, o.err))

\* isValidUtf8 of the bytes of an RPC value, which carries the answer
isValidUtf8(v) == v.utf8

fromRpcValue(s, v, createIfMissing) ==
  CASE v.t \in {"I64", "F64", "Bool"} -> Res(TRUE, s, v, "none")
    [] v.t = "Text" ->
         IF v.v = "" THEN Res(TRUE, s, [t |-> "Bytes", v |-> ""], "none")
         ELSE Then(StoreCall(s, getOrCreateTextId(s, v.v, createIfMissing, 0)),
                   LAMBDA r : Res(r.ok, r.st, [t |-> "TextId", v |-> r.val.id], r.err))
    [] v.t = "Bytes" ->
         IF v.v = "" THEN Res(TRUE, s, [t |-> "Bytes", v |-> ""], "none")
         ELSE IF isValidUtf8(v)
           THEN Then(StoreCall(s, getOrCreateTextId(s, v.v, createIfMissing, 0)),
                     LAMBDA r : Res(r.ok, r.st, [t |-> "TextId", v |-> r.val.id], r.err))
         ELSE Res(TRUE, s, [t |-> "Bytes", v |-> v.v], "none")
    [] OTHER -> Res(TRUE, s, [t |-> "Null", v |-> 0], "none")

fromRpcProperty(s, p, createIfMissing) ==
  Then(StoreCall(s, getOrCreatePropKeyId(s, p.key, createIfMissing, 0)), LAMBDA k :
    IF ~k.ok THEN k
    ELSE Then(fromRpcValue(k.st, p.val, createIfMissing), LAMBDA v :
      IF ~v.ok THEN v
      ELSE Res(TRUE, v.st, [keyId |-> k.val.id, val |-> v.val], "none")))

\* a handler's loop of push_back(fromRpcProperty(pr, store_, true))
RECURSIVE fromRpcProperties(_, _, _)
fromRpcProperties(s, props, createIfMissing) ==
  IF props = <<>> THEN Res(TRUE, s, <<>>, "none")
  ELSE Then(fromRpcProperty(s, Head(props), createIfMissing), LAMBDA p :
    IF ~p.ok THEN p
    ELSE Then(fromRpcProperties(p.st, Tail(props), createIfMissing), LAMBDA rest :
      IF ~rest.ok THEN rest
      ELSE Res(TRUE, rest.st, <<p.val>> \o rest.val, "none")))

\* a handler's loop of push_back(store_.getOrCreate<ns>Id({name, createIfMissing}))
RECURSIVE ResolveNames(_, _, _, _)
ResolveNames(s, ns, names, createIfMissing) ==
  IF names = <<>> THEN Res(TRUE, s, <<>>, "none")
  ELSE Then(StoreCall(s, getOrCreateId(s, ns, Head(names), createIfMissing, 0)), LAMBDA r :
    IF ~r.ok THEN r
    ELSE Then(ResolveNames(r.st, ns, Tail(names), createIfMissing), LAMBDA rest :
      IF ~rest.ok THEN rest
      ELSE Res(TRUE, rest.st, <<r.val.id>> \o rest.val, "none")))

fromRpcLabelSet(s, ls, createIfMissing) == ResolveNames(s, "labels", ls, createIfMissing)

\* VectorF32 is copied field by field
fromRpcVector(v) == [dim |-> v.dim, data |-> v.data]

fromRpcTaggedVector(s, tv, createIfMissing) ==
  Then(fromRpcVector(tv.vector), LAMBDA vector :
    Then(StoreCall(s, getOrCreateVecTagId(s, tv.tag, createIfMissing,
                                          createIfMissing /\ vector.dim # 0,
                                          vector.dim, 0)),
         LAMBDA r : Res(r.ok, r.st, [tagId |-> r.val.id, vector |-> vector], r.err)))

RECURSIVE fromRpcTaggedVectors(_, _, _)
fromRpcTaggedVectors(s, tvs, createIfMissing) ==
  IF tvs = <<>> THEN Res(TRUE, s, <<>>, "none")
  ELSE Then(fromRpcTaggedVector(s, Head(tvs), createIfMissing), LAMBDA p :
    IF ~p.ok THEN p
    ELSE Then(fromRpcTaggedVectors(p.st, Tail(tvs), createIfMissing), LAMBDA rest :
      IF ~rest.ok THEN rest
      ELSE Res(TRUE, rest.st, <<p.val>> \o rest.val, "none")))

\* one iteration of writeBatch's loop: the case of op.which()
writeOp(s, op) ==
  CASE op.which = "createNode" ->
         Then(fromRpcLabelSet(s, op.labels, TRUE), LAMBDA l :
           IF ~l.ok THEN l
           ELSE Then(fromRpcProperties(l.st, op.hotProps, TRUE), LAMBDA h :
             IF ~h.ok THEN h
             ELSE Then(fromRpcProperties(h.st, op.coldProps, TRUE), LAMBDA c :
               IF ~c.ok THEN c
               ELSE Then(fromRpcTaggedVectors(c.st, op.vectors, TRUE), LAMBDA v :
                 IF ~v.ok THEN v
                 ELSE StoreCall(v.st, createNode(v.st,
                        [labels |-> l.val, hotProps |-> h.val, coldProps |-> c.val,
                         vectors |-> v.val], 0))))))
    [] op.which = "upsertNodeProps" ->
         Then(fromRpcProperties(s, op.setHot, TRUE), LAMBDA h :
           IF ~h.ok THEN h
           ELSE Then(fromRpcProperties(h.st, op.setCold, TRUE), LAMBDA c :
             IF ~c.ok THEN c
             ELSE Then(ResolveNames(c.st, "propKeys", op.unsetKeys, FALSE), LAMBDA u :
               IF ~u.ok THEN u
               ELSE StoreCall(u.st, upsertNodeProps(u.st,
                      [id |-> op.id, setHot |-> h.val, setCold |-> c.val,
                       unsetKeys |-> u.val], 0)))))
    [] op.which = "setNodeLabels" ->
         Then(ResolveNames(s, "labels", op.addLabels, TRUE), LAMBDA a :
           IF ~a.ok THEN a
           ELSE Then(ResolveNames(a.st, "labels", op.removeLabels, FALSE), LAMBDA r :
             IF ~r.ok THEN r
             ELSE StoreCall(r.st, setNodeLabels(r.st,
                    [id |-> op.id, addLabels |-> a.val, removeLabels |-> r.val], 0))))
    [] op.which = "upsertVector" ->
         Then(fromRpcVector(op.vector), LAMBDA vector :
           Then(StoreCall(s, getOrCreateVecTagId(s, op.tag, TRUE, vector.dim # 0,
                                                 vector.dim, 0)), LAMBDA g :
             IF ~g.ok THEN g
             ELSE StoreCall(g.st, upsertVector(g.st,
                    [id |-> op.id, tagId |-> g.val.id, vector |-> vector], 0))))
    [] op.which = "deleteVector" ->
         Then(StoreCall(s, getOrCreateVecTagId(s, op.tag, FALSE, FALSE, 0, 0)), LAMBDA g :
           IF ~g.ok THEN g
           ELSE StoreCall(g.st, deleteVector(g.st, [id |-> op.id, tagId |-> g.val.id], 0)))
    [] op.which = "addEdge" ->
         Then(StoreCall(s, getOrCreateRelTypeId(s, op.meta.type, TRUE, 0)), LAMBDA ty :
           IF ~ty.ok THEN ty
           ELSE Then(fromRpcProperties(ty.st, op.meta.props, TRUE), LAMBDA pr :
             IF ~pr.ok THEN pr
             ELSE StoreCall(pr.st, addEdge(pr.st,
                    [src |-> op.src, dst |-> op.dst,
                     meta |-> [typeId |-> ty.val.id, props |-> pr.val]], 0))))
    [] op.which = "updateEdgeProps" ->
         Then(fromRpcProperties(s, op.setProps, TRUE), LAMBDA pr :
           IF ~pr.ok THEN pr
           ELSE Then(ResolveNames(pr.st, "propKeys", op.unsetKeys, FALSE), LAMBDA u :
             IF ~u.ok THEN u
             ELSE StoreCall(u.st, updateEdgeProps(u.st,
                    [edgeId |-> op.edgeId, setProps |-> pr.val, unsetKeys |-> u.val], 0))))
    [] OTHER -> Res(TRUE, s, Void, "none")

\* a writeBatch whose ops all run on the store as it was before the batch; the
\* store it leaves is that of the last op
RECURSIVE writeBatch_isolated(_, _)
writeBatch_isolated(s, ops) ==
  IF ops = <<>> THEN Res(TRUE, s, Void, "none")
  ELSE Then(writeOp(s, Head(ops)), LAMBDA r :
    IF ~r.ok \/ Len(ops) = 1 THEN r
    ELSE Then(writeBatch_isolated(s, Tail(ops)), LAMBDA rest : rest))

\* StardustImpl::writeBatch: the ops in order; an exception leaves the loop
RECURSIVE writeBatch(_, _)
writeBatch(s, ops) ==
  IF ops = <<>> THEN Res(TRUE, s, Void, "none")
  ELSE Then(writeOp(s, Head(ops)), LAMBDA r :
    IF ~r.ok THEN r ELSE writeBatch(r.st, Tail(ops)))

\* how many ops of the batch are of this kind
CountOps(ops, which) == Cardinality({i \in DOMAIN ops : ops[i].which = which})

WriteBatch(B) ==
  \E ops \in B :
    /\ read_u64_or(db, "nodeSeq", 0) + CountOps(ops, "createNode") <= MaxNodeSeq
    /\ read_u64_or(db, "edgeSeq", 0) + CountOps(ops, "addEdge") <= MaxEdgeSeq
    /\ \E r \in {writeBatch(db, ops)} :
         /\ db' = r.st
         /\ last' = [op |-> "writeBatch", ok |-> r.ok, err |-> r.err,
                     arg |-> [ops |-> ops], ret |-> Void]
         /\ thr' = Committed(thr, r.st)

\* ---- batches ----

RpcI64_1 == [t |-> "I64", v |-> 1]
RpcText_a == [t |-> "Text", v |-> "a"]

BatchOps ==
  {[which |-> "createNode", labels |-> <<"a">>,
    hotProps |-> <<[key |-> "k", val |-> RpcI64_1]>>,
    coldProps |-> <<[key |-> "c", val |-> RpcText_a]>>,
    vectors |-> <<[tag |-> "t", vector |-> Vec4]>>],
   [which |-> "upsertNodeProps", id |-> 2,
    setHot |-> <<[key |-> "k", val |-> RpcText_a]>>, setCold |-> <<>>,
    unsetKeys |-> <<"c">>],
   [which |-> "setNodeLabels", id |-> 1, addLabels |-> <<"b">>,
    removeLabels |-> <<"a">>],
   [which |-> "upsertVector", id |-> 1, tag |-> "t", vector |-> Vec8],
   [which |-> "addEdge", src |-> 1, dst |-> 1,
    meta |-> [type |-> "r", props |-> <<[key |-> "k", val |-> RpcI64_1]>>]]}

\* ops that are sent only as the one op of their batch
SingleOps ==
  {[which |-> "deleteVector", id |-> 1, tag |-> "t"],
   [which |-> "updateEdgeProps", edgeId |-> 1,
    setProps |-> <<[key |-> "c", val |-> RpcI64_1]>>, unsetKeys |-> <<"k">>]}

\* the batches of one op and of two ops
Batches ==
  {<<a>> : a \in BatchOps \cup SingleOps} \cup {<<a, b>> : a \in BatchOps, b \in BatchOps}

NextBatch ==
  \/ WriteBatch(Batches)

SpecBatch == Init /\ [][NextBatch]_vars

\* C4 (write batch atomicity): a writeBatch in which an operation fails leaves
\* every table as it was before the batch: no effect of the operations that
\* preceded the failing one, no id allocated and no dictionary entry created for
\* them, is visible afterwards.
C4_BatchAtomic == [][(last'.op = "writeBatch" /\ ~last'.ok) => db' = db]_vars

\* -------------------------------------------------------------------------
\* Single operations that fail
\* -------------------------------------------------------------------------

\* every write operation of Store, each with every stage at which the engine
\* can fail; node 1 and edge 1 are missing before they are made and after
\* they are deleted
NextAtomic ==
  \/ CreateNode({FullNode}, 0 .. 6)
  \/ UpsertNodeProps({[id |-> 1, setHot |-> <<[keyId |-> 3, val |-> Bool_T]>>,
                       setCold |-> <<[keyId |-> 2, val |-> I64_1]>>,
                       unsetKeys |-> <<1>>]}, 0 .. 4)
  \/ SetNodeLabels({[id |-> 1, addLabels |-> <<3>>, removeLabels |-> <<1>>]}, 0 .. 4)
  \/ UpsertVector({[id |-> 1, tagId |-> 1, vector |-> v] : v \in {Vec4, Vec8, Vec6, Vec4d2}},
                  0 .. 3)
  \/ DeleteVector({[id |-> 1, tagId |-> 1]}, 0 .. 2)
  \/ AddEdge({[src |-> 1, dst |-> 2,
               meta |-> [typeId |-> 1, props |-> <<[keyId |-> 1, val |-> I64_1]>>]]}, 0 .. 6)
  \/ UpdateEdgeProps({[edgeId |-> 1, setProps |-> <<[keyId |-> 2, val |-> Bool_T]>>,
                       unsetKeys |-> <<1>>]}, 0 .. 3)
  \/ DeleteNode({[id |-> 1]}, 0 .. 9)
  \/ DeleteEdge({[edgeId |-> 1]}, 0 .. 5)

SpecAtomic == Init /\ [][NextAtomic]_vars

\* C5 (single-operation atomicity): a call of a Store write operation that
\* raises, for a missing header, a dimension mismatch or a failure of the engine
\* at any of its stages, leaves every table, the meta sequences included, exactly
\* as it was before the call.
C5_FailedCallChangesNothing == [][~last'.ok => db' = db]_vars

\* an addEdge whose commit failed after all its puts: edge 1 is still the only
\* edge and edgeSeq is still 1
C5_Witness ==
  /\ last.op = "addEdge" /\ ~last.ok /\ last.err = "Commit"
  /\ read_u64_or(db, "edgeSeq", 0) = 1
  /\ DOMAIN db.edgesById = {1}
  /\ db.edgesBySrcType = {<<1, 1, 2, 1>>}
  /\ DOMAIN db.edgeProps = {<<1, 1>>}

\* -------------------------------------------------------------------------
\* Vectors: createNode, upsertVector, getOrCreateVecTagId, deleteVector,
\* deleteNode
\* -------------------------------------------------------------------------

\* 0, 4 and 8 bytes, 6 bytes, and 4 bytes declared as dim 1 and as dim 2
Vectors == {NoVec, Vec4, Vec8, Vec6, Vec4d1, Vec4d2}

\* tag ids a caller passes
TagIds == {1, 2}

NextVectors ==
  \/ CreateNode({[PlainNode EXCEPT !.vectors = vs] :
                   vs \in {<<>>, <<[tagId |-> 1, vector |-> Vec4]>>}}, {0})
  \/ UpsertVector({[id |-> 1, tagId |-> t, vector |-> v] : t \in TagIds, v \in Vectors},
                  {0})
  \/ GetOrCreateVecTagId({"a", "b"}, {2}, {0})
  \/ DeleteVector({[id |-> 1, tagId |-> t] : t \in TagIds}, {0})
  \/ DeleteNode({[id |-> 1]}, {0})

SpecVectors == Init /\ [][NextVectors]_vars

\* C6 (I4, vector dimension discipline): in every committed state, every row
\* (node, tag) of nodeVectors has a vecTagMeta entry for its tag, and its value
\* is exactly 4 times that dimension long.
C6_VectorDimDiscipline ==
  \A k \in DOMAIN db.nodeVectors :
    /\ Has(db.vecTagMeta, k[2])
    /\ DataSize(db.nodeVectors[k]) = 4 * db.vecTagMeta[k[2]]

\* the conditions under which upsertVector(params) must raise in state s
MustRaise(s, params) ==
  LET len == DataSize(params.vector.data)
  IN \/ len % 4 # 0
     \/ params.vector.dim # 0 /\ params.vector.dim # len \div 4
     \/ Has(s.vecTagMeta, params.tagId) /\ s.vecTagMeta[params.tagId] # len \div 4

\* C7 (dimension enforcement): upsertVector raises when the byte length is not a
\* multiple of 4, when the declared dim is non-zero and differs from len/4, or
\* when vecTagMeta[tag] exists and differs from len/4, and then leaves
\* nodeVectors and vecTagMeta unchanged; when none of these holds and
\* vecTagMeta[tag] is absent, the call (the engine not failing) succeeds and
\* sets vecTagMeta[tag] = len/4.
C7_DimensionEnforcement ==
  [][last'.op = "upsertVector" =>
       LET params == last'.arg
           len == DataSize(params.vector.data)
       IN /\ MustRaise(db, params)
               => /\ ~last'.ok
                  /\ last'.err \in {"InvalidArgument", "DimMismatch"}
                  /\ db'.nodeVectors = db.nodeVectors
                  /\ db'.vecTagMeta = db.vecTagMeta
          /\ (~MustRaise(db, params) /\ ~Has(db.vecTagMeta, params.tagId))
               => /\ last'.ok
                  /\ Has(db'.vecTagMeta, params.tagId)
                  /\ db'.vecTagMeta[params.tagId] = len \div 4
                  /\ Has(db'.nodeVectors, <<params.id, params.tagId>>)]_vars

\* an upsertVector of 8 bytes was refused for a tag whose dimension is 1, and the
\* 4-byte vector stored before is still there
C7_Witness ==
  /\ last.op = "upsertVector" /\ ~last.ok /\ last.err = "DimMismatch"
  /\ last.arg.tagId = 1 /\ DataSize(last.arg.vector.data) = 8
  /\ last.arg.vector.dim = 0
  /\ Has(db.vecTagMeta, 1) /\ db.vecTagMeta[1] = 1
  /\ Has(db.nodeVectors, <<1, 1>>) /\ DataSize(db.nodeVectors[<<1, 1>>]) = 4

\* C8 (tag dimension immutability): once vecTagMeta[tag] has a value, no later
\* operation changes or removes it.
C8_TagDimImmutable ==
  [][\A t \in DOMAIN db.vecTagMeta :
       Has(db'.vecTagMeta, t) /\ db'.vecTagMeta[t] = db.vecTagMeta[t]]_vars

\* -------------------------------------------------------------------------
\* Ids: the meta sequences
\* -------------------------------------------------------------------------

\* names a caller passes; the empty name is refused by the engine
IdNames == {"", "a", "b"}

NextIds ==
  \/ CreateNode({PlainNode}, {0, 2})
  \/ AddEdge({[src |-> 1, dst |-> 1, meta |-> [typeId |-> 1, props |-> <<>>]]}, {0, 2})
  \/ DeleteNode({[id |-> n] : n \in 1 .. MaxNodeSeq}, {0})
  \/ DeleteEdge({[edgeId |-> e] : e \in EdgeIds}, {0})
  \/ GetOrCreateId({"labels"}, IdNames, {0, 3})
  \/ GetOrCreateVecTagId(IdNames, {}, {0})

SpecIds == Init /\ [][NextIds]_vars

SeqKeys == {"nodeSeq", "edgeSeq"} \cup {SeqKey(ns) : ns \in Namespaces}

\* the call that last' reports issued a new id from the sequence `key`
Issued(key) ==
  /\ last'.ok
  /\ \/ key = "nodeSeq" /\ last'.op = "createNode"
     \/ key = "edgeSeq" /\ last'.op = "addEdge"
     \/ /\ last'.op = "getOrCreateId" /\ key = SeqKey(last'.arg.ns)
        /\ ~Has(db[ByNameTbl(last'.arg.ns)], last'.arg.name)
     \/ /\ last'.op = "getOrCreateVecTagId" /\ key = "vecTagSeq"
        /\ ~Has(db.vecTagsByName, last'.arg.name)

\* C9 (I5, monotone ids): no sequence ever decreases; an id that createNode,
\* addEdge or a creating getOrCreate returns is greater than 0 and greater than
\* the sequence before the call, hence than every id issued before, and the
\* sequence after the call equals it, also when nodes and edges were deleted in
\* between.
C9_MonotoneIds ==
  [][\A key \in SeqKeys :
       /\ read_u64_or(db', key, 0) >= read_u64_or(db, key, 0)
       /\ Issued(key)
            => /\ last'.ret.id > 0
               /\ last'.ret.id > read_u64_or(db, key, 0)
               /\ read_u64_or(db', key, 0) = last'.ret.id]_vars

\* node 2 was created after node 1 had been created and deleted
C9_Witness ==
  /\ last.op = "createNode" /\ last.ok /\ last.ret.id = 2
  /\ DOMAIN db.nodes = {2}
  /\ read_u64_or(db, "nodeSeq", 0) = 2

\* -------------------------------------------------------------------------
\* Dictionaries: getOrCreate in the five namespaces
\* -------------------------------------------------------------------------

\* more names than a namespace may hold, so that the last one stays missing
DictNames == {"", "a", "b", "c"}

NextDict ==
  \/ GetOrCreateId({"labels"}, DictNames, 0 .. 4)
  \/ GetOrCreateId({"texts"}, {"a", "b"}, {0})
  \/ GetOrCreateId({"relTypes", "propKeys"}, {"a"}, {0})
  \/ GetOrCreateVecTagId({"a"}, {2}, 0 .. 5)

SpecDict == Init /\ [][NextDict]_vars

\* C10 (I3, dictionary bijection): in every committed state and in every
\* namespace, the ids table maps id to name if and only if the byName table
\* maps name to id; so no two names share an id and no name has two ids.
C10_DictionaryBijection ==
  \A ns \in Namespaces :
    LET ids == db[IdsTbl(ns)]
        byName == db[ByNameTbl(ns)]
    IN /\ \A id \in DOMAIN ids : Has(byName, ids[id]) /\ byName[ids[id]] = id
       /\ \A name \in DOMAIN byName : Has(ids, byName[name]) /\ ids[byName[name]] = name

\* two labels and two texts were created in opposite orders, and a later lookup
\* of "a" returned the id it was given
C10_Witness ==
  /\ DOMAIN db.labelsByName = {"a", "b"} /\ DOMAIN db.labelIds = {1, 2}
  /\ db.labelsByName["a"] = 1 /\ db.labelIds[2] = "b"
  /\ DOMAIN db.textsByName = {"a", "b"} /\ DOMAIN db.textIds = {1, 2}
  /\ db.textsByName["b"] = 1 /\ db.textIds[2] = "a"
  /\ Has(db.vecTagsByName, "a")
  /\ last.op = "getOrCreateId" /\ last.ok /\ ~last.arg.createIfMissing
  /\ last.arg.ns = "texts" /\ last.arg.name = "a" /\ last.ret.id = 2

\* -------------------------------------------------------------------------
\* Names: getOrCreate and nameOf next to the operations on nodes
\* -------------------------------------------------------------------------

\* ids a caller passes to nameOf: 0 is never issued
NameIds == 0 .. MaxDictSeq + 1

NextNames ==
  \/ GetOrCreateId({"labels"}, DictNames, {0})
  \/ GetOrCreateId({"texts"}, {"a"}, {0})
  \/ GetOrCreateVecTagId({"a"}, {2}, {0})
  \/ GetName({"labels", "vecTags"}, NameIds)
  \/ CreateNode({[PlainNode EXCEPT !.labels = <<1>>,
                                   !.vectors = <<[tagId |-> 1, vector |-> Vec4]>>]}, {0})
  \/ SetNodeLabels({[id |-> 1, addLabels |-> <<>>, removeLabels |-> <<1>>]}, {0})
  \/ DeleteVector({[id |-> 1, tagId |-> 1]}, {0})
  \/ DeleteNode({[id |-> 1]}, {0})

SpecNames == Init /\ [][NextNames]_vars

\* the step is a getOrCreate call
IsGetOrCreate == last'.op \in {"getOrCreateId", "getOrCreateVecTagId"}

\* the namespace of the getOrCreate call that last' reports
CallNs == IF last'.op = "getOrCreateVecTagId" THEN "vecTags" ELSE last'.arg.ns

\* C11 (dictionary round-trip and stability): nameOf of the id that a
\* getOrCreate(name) returns is name; a getOrCreate (creating or not) of a name
\* that is already in the namespace returns the id stored for it and writes
\* nothing, so no id is allocated; and no step of any operation removes or
\* changes an entry: every name keeps its id and nameOf of that id stays name.
C11_RoundTripStable ==
  [][/\ \A ns \in Namespaces : \A name \in DOMAIN db[ByNameTbl(ns)] :
          /\ Has(db'[ByNameTbl(ns)], name)
          /\ db'[ByNameTbl(ns)][name] = db[ByNameTbl(ns)][name]
          /\ getName(db', ns, db[ByNameTbl(ns)][name]).ok
          /\ getName(db', ns, db[ByNameTbl(ns)][name]).ret = [name |-> name]
     /\ (IsGetOrCreate /\ last'.ok)
          => /\ getName(db', CallNs, last'.ret.id).ok
             /\ getName(db', CallNs, last'.ret.id).ret = [name |-> last'.arg.name]
     /\ (IsGetOrCreate /\ Has(db[ByNameTbl(CallNs)], last'.arg.name))
          => /\ last'.ok
             /\ last'.ret.id = db[ByNameTbl(CallNs)][last'.arg.name]
             /\ db' = db]_vars

\* label "b" was created second, a node was created and deleted, and a
\* non-creating lookup of "b" returned its id 2
C11_Witness ==
  /\ last.op = "getOrCreateId" /\ last.ok /\ ~last.arg.createIfMissing
  /\ last.arg.ns = "labels" /\ last.arg.name = "b" /\ last.ret.id = 2
  /\ read_u64_or(db, "labelSeq", 0) = 2
  /\ getName(db, "labels", 2).ok /\ getName(db, "labels", 2).ret.name = "b"
  /\ read_u64_or(db, "nodeSeq", 0) >= 1 /\ DOMAIN db.nodes = {}

\* the step is getOrCreate(name, createIfMissing = false) of a name that the
\* namespace does not hold
MissingLookup ==
  /\ IsGetOrCreate /\ ~last'.arg.createIfMissing
  /\ ~Has(db[ByNameTbl(CallNs)], last'.arg.name)

\* the step is nameOf(id) of an id that the namespace does not hold
UnknownId == last'.op = "getName" /\ ~Has(db[IdsTbl(last'.arg.ns)], last'.arg.id)

\* C12 as stated: getOrCreate(name, createIfMissing = false) of a name that is not
\* in the namespace fails with NotFound and changes nothing; nameOf(id) of an
\* unknown id fails.
C12_MissingIsNotFound ==
  [][/\ MissingLookup => (~last'.ok /\ last'.err = "NotFound" /\ db' = db)
     /\ UnknownId => (~last'.ok /\ db' = db)]_vars

\* C12: getOrCreate(name, createIfMissing = false) of a name that is not in the
\* namespace fails and changes no table (no dictionary row, no meta sequence);
\* the failure is NotFound when the name is not empty and the engine's refusal of
\* a key of length 0 when it is; nameOf(id) of an unknown id fails with NotFound.
C12_MissingFails ==
  [][/\ MissingLookup
          => /\ ~last'.ok /\ db' = db
             /\ last'.err = (IF last'.arg.name = "" THEN "BadValSize" ELSE "NotFound")
     /\ UnknownId => (~last'.ok /\ last'.err = "NotFound" /\ db' = db)]_vars

\* label "c" was looked up without creating while the namespace held "a" and "b"
C12_Witness ==
  /\ last.op = "getOrCreateId" /\ ~last.ok /\ last.err = "NotFound"
  /\ ~last.arg.createIfMissing /\ last.arg.name = "c" /\ last.arg.ns = "labels"
  /\ DOMAIN db.labelsByName = {"a", "b"}
  /\ read_u64_or(db, "labelSeq", 0) = 2

\* -------------------------------------------------------------------------
\* Rows of nodes and edges that are not live
\* -------------------------------------------------------------------------

\* C13 (I7, no dangling rows): in every committed state, every row of
\* nodeColdProps and of nodeVectors has a major id that is in nodes, and every
\* row of edgeProps has a major id that is in edgesById.
C13_NoDanglingRows ==
  /\ \A k \in DOMAIN db.nodeColdProps : Has(db.nodes, k[1])
  /\ \A k \in DOMAIN db.nodeVectors : Has(db.nodes, k[1])
  /\ \A k \in DOMAIN db.edgeProps : Has(db.edgesById, k[1])

\* -------------------------------------------------------------------------
\* Reading vectors back
\* -------------------------------------------------------------------------

\* 4 bytes with two contents and 8 bytes, written to node 1 and to a node that
\* is never created
NextReadBack ==
  \/ CreateNode({[PlainNode EXCEPT !.vectors = vs] :
                   vs \in {<<>>, <<[tagId |-> 1, vector |-> Vec4d1], [tagId |-> 1, vector |-> Vec4]>>}},
                {0})
  \/ UpsertVector({[id |-> n, tagId |-> t, vector |-> v] :
                     n \in {1, MaxNodeSeq + 1}, t \in TagIds, v \in {Vec4, Vec8}}, {0})
  \/ DeleteVector({[id |-> n, tagId |-> t] : n \in {1, MaxNodeSeq + 1}, t \in TagIds}, {0})
  \/ DeleteNode({[id |-> 1]}, {0})

SpecReadBack == Init /\ [][NextReadBack]_vars

\* the bytes that getVectors(n, tagIds) returns in state s under tag t, one
\* element per returned entry of that tag
BytesOf(s, n, tagIds, t) ==
  LET all == getVectors(s, [id |-> n, tagIds |-> tagIds]).ret.vectors
      mine == SelectSeq(all, LAMBDA tv : tv.tagId = t)
  IN [i \in 1 .. Len(mine) |-> mine[i].vector.data]

\* what is read for (n, t): by getVectors(n, [t]) and by getVectors(n, [])
ReadBack(s, n, t) == <<BytesOf(s, n, <<t>>, t), BytesOf(s, n, <<>>, t)>>

\* the vectors that createNode's params carry for tag t, in list order
CreatedFor(params, t) == SelectSeq(params.vectors, LAMBDA tv : tv.tagId = t)

\* C14 (vector read-your-write): after a successful upsertVector(n, t, bytes),
\* getVectors(n, [t]) and getVectors(n, []) each return exactly one entry for t,
\* holding bytes; after a createNode that returns n with a vector for t, they
\* return that vector's bytes; after a committed deleteVector(n, t), and after a
\* committed deleteNode(n), they return no entry for t; and no other step
\* changes what they return for (n, t), so what is read is what was last written.
C14_VectorReadYourWrite ==
  [][\A n \in 1 .. MaxNodeSeq + 1, t \in TagIds :
       IF ~last'.ok THEN ReadBack(db', n, t) = ReadBack(db, n, t)
       ELSE IF last'.op = "upsertVector" /\ last'.arg.id = n /\ last'.arg.tagId = t
         THEN ReadBack(db', n, t) = <<<<last'.arg.vector.data>>, <<last'.arg.vector.data>>>>
       ELSE IF last'.op = "deleteVector" /\ last'.arg.id = n /\ last'.arg.tagId = t
         THEN ReadBack(db', n, t) = <<<<>>, <<>>>>
       ELSE IF last'.op = "deleteNode" /\ last'.arg.id = n
         THEN ReadBack(db', n, t) = <<<<>>, <<>>>>
       ELSE IF last'.op = "createNode" /\ last'.ret.id = n
                 /\ CreatedFor(last'.arg, t) # <<>>
         THEN LET c == CreatedFor(last'.arg, t)
              IN ReadBack(db', n, t) = <<<<c[Len(c)].vector.data>>, <<c[Len(c)].vector.data>>>>
       ELSE ReadBack(db', n, t) = ReadBack(db, n, t)]_vars

\* node 1 was created with 4 bytes under tag 1 and then given 8 bytes under
\* tag 2: getVectors(1, []) returns both, in tag order
C14_Witness ==
  /\ last.op = "upsertVector" /\ last.ok /\ last.arg.id = 1 /\ last.arg.tagId = 2
  /\ last.arg.vector = Vec8
  /\ Has(db.nodes, 1)
  /\ ReadBack(db, 1, 1) = <<<<Vec4.data>>, <<Vec4.data>>>>
  /\ ReadBack(db, 1, 2) = <<<<Vec8.data>>, <<Vec8.data>>>>
  /\ Len(getVectors(db, [id |-> 1, tagIds |-> <<>>]).ret.vectors) = 2

\* -------------------------------------------------------------------------
\* Scanning nodes by label
\* -------------------------------------------------------------------------

\* the live nodes whose header contains label L, in ascending id order
NodesWithLabel(s, L) == SortSet({n \in DOMAIN s.nodes : L \in Range(s.nodes[n].labels)})

\* label ids a caller scans for: 0 and 3 are on no node
ScanLabelIds == 0 .. 3

\* limits a caller passes: 0 is unlimited
ScanLimits == 0 .. MaxNodeSeq + 1

\* C15 (label scan correctness): in every state reached by createNode,
\* setNodeLabels and deleteNode, scanNodesByLabel(L, 0) returns exactly the live
\* nodes whose header contains L, each once, in ascending id order, and
\* scanNodesByLabel(L, m) with m > 0 returns the first min(m, size) of them.
C15_LabelScan ==
  \A L \in ScanLabelIds, m \in ScanLimits :
    LET all == NodesWithLabel(db, L)
        got == scanNodesByLabel(db, [labelId |-> L, limit |-> m]).ret.nodeIds
    IN got = (IF m = 0 \/ m >= Len(all) THEN all ELSE SubSeq(all, 1, m))

\* -------------------------------------------------------------------------
\* Degree and adjacency against the live edges
\* -------------------------------------------------------------------------

\* the live edges (records of edgesById) that leave n, and that enter n
LiveOut(s, n) == {e \in DOMAIN s.edgesById : s.edgesById[e].src = n}
LiveIn(s, n) == {e \in DOMAIN s.edgesById : s.edgesById[e].dst = n}

\* node ids a caller asks about: 0 and MaxNodeSeq + 1 are never issued
AskedNodes == 0 .. MaxNodeSeq + 1

Count(s, n, d) == degree(s, s, [node |-> n, direction |-> d]).ret.count

\* C16 (degree correctness): in every committed state and for every node id n,
\* degree(n, Out) is the number of live edges with src = n, degree(n, In) the
\* number of live edges with dst = n, and degree(n, Both) their sum.
C16_Degree ==
  \A n \in AskedNodes :
    /\ Count(db, n, "Out") = Cardinality(LiveOut(db, n))
    /\ Count(db, n, "In") = Cardinality(LiveIn(db, n))
    /\ Count(db, n, "Both") = Count(db, n, "Out") + Count(db, n, "In")

\* a limit above the number of rows any node can have
AboveRows == MaxEdgeSeq + 1

\* the rows of listAdjacency(n, d, AboveRows) in state s
Rows(s, n, d) == listAdjacency(s, s, [node |-> n, direction |-> d, limit |-> AboveRows])

\* the rows of edge e among them
RowsOf(s, n, d, e) == SelectSeq(Rows(s, n, d), LAMBDA a : a.edgeId = e)

\* C17 (adjacency reflects live edges): after every step, for every node n the
\* rows of listAdjacency(n, Out) are one row per live edge leaving n, with that
\* edge's dst as neighbor and direction Out, and no row of any other edge id;
\* the same for In with src; a successful addEdge(s, d, type t) returning e puts
\* the row (d, e, t, Out) in listAdjacency(s, Out) and (s, e, t, In) in
\* listAdjacency(d, In); and the rows of an edge that stays live do not change.
C17_AdjacencyLive ==
  [][/\ \A n \in AskedNodes :
          /\ {Rows(db', n, "Out")[i].edgeId : i \in DOMAIN Rows(db', n, "Out")} = LiveOut(db', n)
          /\ {Rows(db', n, "In")[i].edgeId : i \in DOMAIN Rows(db', n, "In")} = LiveIn(db', n)
          /\ \A e \in LiveOut(db', n) :
               /\ Len(RowsOf(db', n, "Out", e)) = 1
               /\ RowsOf(db', n, "Out", e)[1].neighborId = db'.edgesById[e].dst
               /\ RowsOf(db', n, "Out", e)[1].direction = "Out"
               /\ e \in LiveOut(db, n) => RowsOf(db', n, "Out", e) = RowsOf(db, n, "Out", e)
          /\ \A e \in LiveIn(db', n) :
               /\ Len(RowsOf(db', n, "In", e)) = 1
               /\ RowsOf(db', n, "In", e)[1].neighborId = db'.edgesById[e].src
               /\ RowsOf(db', n, "In", e)[1].direction = "In"
               /\ e \in LiveIn(db, n) => RowsOf(db', n, "In", e) = RowsOf(db, n, "In", e)
     /\ (last'.op = "addEdge" /\ last'.ok)
          => /\ RowsOf(db', last'.arg.src, "Out", last'.ret.id)
                  = <<[neighborId |-> last'.arg.dst, edgeId |-> last'.ret.id,
                       typeId |-> last'.arg.meta.typeId, direction |-> "Out"]>>
             /\ RowsOf(db', last'.arg.dst, "In", last'.ret.id)
                  = <<[neighborId |-> last'.arg.src, edgeId |-> last'.ret.id,
                       typeId |-> last'.arg.meta.typeId, direction |-> "In"]>>]_vars

\* everything the store holds about edge e
EdgeRows(s, e) ==
  [ref |-> IF Has(s.edgesById, e) THEN <<s.edgesById[e]>> ELSE <<>>,
   src |-> {k \in s.edgesBySrcType : k[4] = e},
   dst |-> {k \in s.edgesByDstType : k[4] = e},
   props |-> [k \in {r \in DOMAIN s.edgeProps : r[1] = e} |-> s.edgeProps[k]]]

\* C18 (deleteEdge postcondition): after a deleteEdge(e) that commits for an
\* edge e = (s, d) that edgesById held, whatever its type id, getEdge(e) raises
\* NotFound, listAdjacency(s, Out) and listAdjacency(d, In) have no row of edge
\* e, edgeProps has no row with prefix e, and every other edge's record, index
\* rows and properties are unchanged.
C18_DeleteEdgePost ==
  [][(last'.op = "deleteEdge" /\ last'.ok /\ Has(db.edgesById, last'.arg.edgeId))
       => LET e == last'.arg.edgeId
              ref == db.edgesById[e]
          IN /\ ~getEdge(db', e).ok /\ getEdge(db', e).err = "NotFound"
             /\ RowsOf(db', ref.src, "Out", e) = <<>>
             /\ RowsOf(db', ref.dst, "In", e) = <<>>
             /\ \A k \in DOMAIN db'.edgeProps : k[1] # e
             /\ \A o \in KnownEdgeIds \ {e} : EdgeRows(db', o) = EdgeRows(db, o)]_vars

\* -------------------------------------------------------------------------
\* Reads of an id that is absent
\* -------------------------------------------------------------------------

\* key and tag lists of a read: empty asks for all
KeyLists == {<<>>, <<1>>}

NextReads ==
  \/ CreateNode({FullNode}, {0})
  \/ AddEdge({[src |-> 1, dst |-> 1,
               meta |-> [typeId |-> 1, props |-> <<[keyId |-> 1, val |-> I64_1]>>]]}, {0})
  \/ DeleteNode({[id |-> 1]}, {0})
  \/ DeleteEdge({[edgeId |-> 1]}, {0})
  \/ GetNode(1 .. MaxNodeSeq)
  \/ GetNodeProps({[id |-> n, keyIds |-> ks] : n \in 1 .. MaxNodeSeq, ks \in KeyLists})
  \/ GetVectors({[id |-> n, tagIds |-> ts] : n \in 1 .. MaxNodeSeq, ts \in KeyLists})
  \/ GetEdge(1 .. MaxEdgeSeq)
  \/ GetEdgeProps({[edgeId |-> e, keyIds |-> ks] : e \in 1 .. MaxEdgeSeq, ks \in KeyLists})

SpecReads == Init /\ [][NextReads]_vars

\* C19 (reads of a missing id): getNode, getNodeProps and getVectors of a node
\* id that nodes does not hold, and getEdge and getEdgeProps of an edge id that
\* edgesById does not hold, raise NotFound.
C19_MissingIdRaises ==
  [][/\ (last'.op \in {"getNode", "getNodeProps", "getVectors"}
           /\ ~Has(db.nodes, last'.arg.id))
          => (~last'.ok /\ last'.err = "NotFound")
     /\ (last'.op \in {"getEdge", "getEdgeProps"} /\ ~Has(db.edgesById, last'.arg.edgeId))
          => (~last'.ok /\ last'.err = "NotFound")]_vars

\* -------------------------------------------------------------------------
\* Deleting what is absent, and deleting twice
\* -------------------------------------------------------------------------

\* nodes with labels, properties and a vector; edges of type 0 and 1 with a
\* property; vectors and edge properties also on ids that are not live; every
\* delete on ids that are live, deleted, or never issued
NextDelete ==
  \/ CreateNode({FullNode}, {0})
  \/ AddEdge({[src |-> 1, dst |-> 2,
               meta |-> [typeId |-> ty, props |-> <<[keyId |-> 1, val |-> I64_1]>>]] :
                ty \in TypeIds}, {0})
  \/ UpsertVector({[id |-> MaxNodeSeq + 1, tagId |-> 2, vector |-> Vec4]}, {0})
  \/ UpdateEdgeProps({[edgeId |-> 1, setProps |-> <<[keyId |-> 2, val |-> Bool_T]>>,
                       unsetKeys |-> <<>>]}, {0})
  \/ DeleteVector({[id |-> 1, tagId |-> 1], [id |-> MaxNodeSeq + 1, tagId |-> 2]}, {0})
  \/ DeleteEdge({[edgeId |-> e] : e \in EdgeIds}, {0})
  \/ DeleteNode({[id |-> n] : n \in NodeIds}, {0})

SpecDelete == Init /\ [][NextDelete]_vars

DeleteOps == {"deleteVector", "deleteEdge", "deleteNode"}

\* the same delete called in state s, the engine not failing
DeleteAgain(s, op, params) ==
  CASE op = "deleteVector" -> RunTxn(s, deleteVector(s, params, 0))
    [] op = "deleteEdge" -> RunTxn(s, deleteEdge(s, params, 0))
    [] op = "deleteNode" -> RunTxn(s, deleteNode(s, params, 0))

\* C20 (delete idempotence): deleteVector, deleteEdge and deleteNode complete
\* without error, also on an id that was never created or is already deleted;
\* the same call made again right after it completes without error and leaves the
\* store as the first call left it; and when the call before this one was the
\* same delete, this one changes nothing.
C20_DeleteIdempotent ==
  [][last'.op \in DeleteOps
       => /\ last'.ok
          /\ DeleteAgain(db', last'.op, last'.arg).ok
          /\ DeleteAgain(db', last'.op, last'.arg).st = db'
          /\ (last.op = last'.op /\ last.ok /\ DOMAIN last.arg = DOMAIN last'.arg
                /\ last.arg = last'.arg)
               => db' = db]_vars

\* deleteNode of the id 0, which is never issued, completed while two nodes and
\* two edges were live, and left them
C20_Witness ==
  /\ last.op = "deleteNode" /\ last.ok /\ last.arg.id = 0
  /\ DOMAIN db.nodes = {1, 2}
  /\ DOMAIN db.edgesById = {1, 2}
  /\ Cardinality(db.edgesBySrcType) = 2
  /\ Has(db.nodeVectors, <<1, 1>>)

\* -------------------------------------------------------------------------
\* Properties of a node: upsertNodeProps read back by getNodeProps
\* -------------------------------------------------------------------------

\* node 1 is created with key 1 hot (an I64) and key 2 cold (a Bool); the calls
\* set key 1 or key 2 in either placement, with a value of the other type, and
\* unset key 1 or key 2
PropUpserts ==
  {[id |-> 1, setHot |-> h, setCold |-> c, unsetKeys |-> u] :
     h \in {<<>>, <<[keyId |-> 1, val |-> Bool_T]>>, <<[keyId |-> 2, val |-> I64_1]>>},
     c \in {<<>>, <<[keyId |-> 2, val |-> I64_1]>>, <<[keyId |-> 1, val |-> Bool_T]>>},
     u \in {<<>>, <<1>>, <<2>>}}

NextProps ==
  \/ CreateNode({FullNode}, {0})
  \/ AddEdge({[src |-> 1, dst |-> 2,
               meta |-> [typeId |-> 1, props |-> <<[keyId |-> 1, val |-> I64_1]>>]]}, {0})
  \/ UpsertNodeProps(PropUpserts, {0})

SpecProps == Init /\ [][NextProps]_vars

\* the key ids of a property list
KeysOf(props) == {props[i].keyId : i \in DOMAIN props}

\* the value a list of set entries gives key k: that of its last entry for k
SetValue(props, k) ==
  LET mine == SelectSeq(props, LAMBDA p : p.keyId = k) IN mine[Len(mine)].val

\* what getNodeProps(n) returns for key k in state s: one element per entry
AllFor(s, n, k) ==
  SelectSeq(getNodeProps(s, [id |-> n, keyIds |-> <<>>]).ret.props, LAMBDA p : p.keyId = k)

\* what getNodeProps(n, [k]) returns in state s
OneFor(s, n, k) == getNodeProps(s, [id |-> n, keyIds |-> <<k>>]).ret.props

\* key ids a caller asks for
PropKeys == 1 .. 3

\* C21 (set wins over unset): after a successful upsertNodeProps, every key id
\* that is both in unsetKeys and in setHot or setCold (and not in both of these)
\* is present with the newly set value: getNodeProps(n) has exactly one entry for
\* it, with that value, and getNodeProps(n, [k]) returns it.
C21_SetWinsOverUnset ==
  [][(last'.op = "upsertNodeProps" /\ last'.ok)
       => LET a == last'.arg
              set == a.setHot \o a.setCold
          IN \A k \in Range(a.unsetKeys) \cap
                      ((KeysOf(a.setHot) \cup KeysOf(a.setCold))
                         \ (KeysOf(a.setHot) \cap KeysOf(a.setCold))) :
               /\ AllFor(db', a.id, k) = <<[keyId |-> k, val |-> SetValue(set, k)]>>
               /\ OneFor(db', a.id, k) = <<[keyId |-> k, val |-> SetValue(set, k)]>>]_vars

\* the three key sets of an upsertNodeProps call are pairwise disjoint
DisjointKeySets(a) ==
  /\ KeysOf(a.setHot) \cap KeysOf(a.setCold) = {}
  /\ KeysOf(a.setHot) \cap Range(a.unsetKeys) = {}
  /\ KeysOf(a.setCold) \cap Range(a.unsetKeys) = {}

\* the key lists a caller passes to getNodeProps
AskedKeys == {<<1>>, <<2>>, <<3>>, <<2, 1>>, <<1, 3, 2>>}

\* everything of state s that upsertNodeProps(n) has no business with: the
\* tables other than nodes and nodeColdProps, the headers and cold rows of the
\* other nodes, and the id and labels of node n
FrameOf(s, n) ==
  [rest   |-> [t \in DOMAIN s \ {"nodes", "nodeColdProps"} |-> s[t]],
   others |-> [k \in DOMAIN s.nodes \ {n} |-> s.nodes[k]],
   cold   |-> [k \in {c \in DOMAIN s.nodeColdProps : c[1] # n} |-> s.nodeColdProps[k]],
   id     |-> s.nodes[n].id,
   labels |-> s.nodes[n].labels]

\* C22 (upsertNodeProps effect and frame): after a successful upsertNodeProps
\* on node n with pairwise disjoint key sets, getNodeProps(n) has every key of
\* setHot and setCold exactly once and with its new value, has no key of
\* unsetKeys, and has the other keys as before; the labels, vectors and edges
\* of the node and everything of other nodes are unchanged; and
\* getNodeProps(n, keys) returns exactly the requested keys that are stored,
\* each with the value getNodeProps(n) gives.
C22_UpsertEffectAndFrame ==
  [][(last'.op = "upsertNodeProps" /\ last'.ok /\ DisjointKeySets(last'.arg))
       => LET a == last'.arg
              set == a.setHot \o a.setCold
          IN /\ \A k \in KeysOf(set) :
                  AllFor(db', a.id, k) = <<[keyId |-> k, val |-> SetValue(set, k)]>>
             /\ \A k \in Range(a.unsetKeys) : AllFor(db', a.id, k) = <<>>
             /\ \A k \in PropKeys \ (KeysOf(set) \cup Range(a.unsetKeys)) :
                  AllFor(db', a.id, k) = AllFor(db, a.id, k)
             /\ FrameOf(db', a.id) = FrameOf(db, a.id)
             /\ \A ks \in AskedKeys :
                  LET got == getNodeProps(db', [id |-> a.id, keyIds |-> ks]).ret.props
                      stored == SelectSeq(ks, LAMBDA k : AllFor(db', a.id, k) # <<>>)
                  IN /\ Len(got) = Len(stored)
                     /\ \A i \in DOMAIN got :
                          /\ got[i].keyId = stored[i]
                          /\ AllFor(db', a.id, stored[i]) = <<got[i]>>]_vars

\* -------------------------------------------------------------------------
\* Label sets: setNodeLabels again, add and remove together, sorted headers
\* -------------------------------------------------------------------------

\* setNodeLabels that only adds, on a live, a deleted or a never issued node,
\* next to calls that add and remove the same labels
NextLabelAdds ==
  \/ CreateNode({[PlainNode EXCEPT !.labels = ls] : ls \in {<<>>, <<2>>, <<2, 1>>}}, {0})
  \/ SetNodeLabels({[id |-> n, addLabels |-> a, removeLabels |-> r] :
                      n \in 0 .. 2, a \in LabelLists, r \in {<<>>, <<2, 1>>}}, {0})
  \/ DeleteNode({[id |-> 1]}, {0})

SpecLabelAdds == Init /\ [][NextLabelAdds]_vars

\* C23 (setNodeLabels idempotence): after a successful setNodeLabels(n, add = L,
\* remove = empty), with L unsorted or with duplicates, the header of n holds
\* exactly the old labels and those of L, labelIndex has a row (l, n) for each l
\* of L, and the same call made again completes and changes nothing, in the
\* header or in labelIndex.
C23_AddIdempotent ==
  [][(last'.op = "setNodeLabels" /\ last'.ok /\ last'.arg.removeLabels = <<>>)
       => LET a == last'.arg
              again == RunTxn(db', setNodeLabels(db', a, 0))
          IN /\ db'.nodes[a.id].labels
                  = SortSet(Range(db.nodes[a.id].labels) \cup Range(a.addLabels))
             /\ \A l \in Range(a.addLabels) : <<l, a.id>> \in db'.labelIndex
             /\ again.ok
             /\ again.st = db']_vars

\* setNodeLabels(add = [1, 1], remove = []) completed on a node that had label 2
C23_Witness ==
  /\ last.op = "setNodeLabels" /\ last.ok
  /\ last.arg.addLabels = <<1, 1>> /\ last.arg.removeLabels = <<>>
  /\ db.nodes[last.arg.id].labels = <<1, 2>>
  /\ {<<1, last.arg.id>>, <<2, last.arg.id>>} \subseteq db.labelIndex

\* C24 (label in both add and remove): after a successful setNodeLabels(n)
\* whose add and remove lists share a label id l, the label is present: l is in
\* the header of n and scanNodesByLabel(l) returns n.
C24_AddAndRemovePresent ==
  [][(last'.op = "setNodeLabels" /\ last'.ok)
       => \A l \in Range(last'.arg.addLabels) \cap Range(last'.arg.removeLabels) :
            /\ l \in Range(db'.nodes[last'.arg.id].labels)
            /\ last'.arg.id
                 \in Range(scanNodesByLabel(db', [labelId |-> l, limit |-> 0]).ret.nodeIds)]_vars

\* a list of label ids is strictly ascending
StrictlyAscending(v) == \A i \in DOMAIN v : i < Len(v) => v[i] < v[i + 1]

\* C25 (I6, sorted label set): after createNode with unsorted or duplicate
\* labels and any sequence of setNodeLabels, the label list of every stored
\* header, and of the header createNode returns, is strictly ascending.
C25_LabelsSorted ==
  /\ \A n \in DOMAIN db.nodes : StrictlyAscending(db.nodes[n].labels)
  /\ (last.op = "createNode" /\ last.ok) => StrictlyAscending(last.ret.header.labels)

\* createNode(labels = [2, 1]) returned and stored the header labels [1, 2],
\* next to a node created with labels [1, 1] and then given [2, 1]
C25_Witness ==
  /\ last.op = "createNode" /\ last.ok
  /\ last.arg.labels = <<2, 1>>
  /\ last.ret.header.labels = <<1, 2>>
  /\ db.nodes[last.ret.id].labels = <<1, 2>>
  /\ \E n \in DOMAIN db.nodes : n # last.ret.id /\ db.nodes[n].labels = <<1, 2>>

\* -------------------------------------------------------------------------
\* KNN
\* -------------------------------------------------------------------------

\* vectors of two floats: a unit vector, a diagonal, the opposite unit vector,
\* the zero vector
KnnVectors == {<<1, 0>>, <<1, 1>>, <<-1, 0>>, <<0, 0>>}

\* queries: two of the dimension of tag 1 (one declares it), the zero query, one
\* float, ten bytes, and one that declares dimension 3 over two floats
KnnQueries ==
  {[dim |-> 0, data |-> [f |-> <<1, 0>>, tail |-> 0]],
   [dim |-> 2, data |-> [f |-> <<1, 1>>, tail |-> 0]],
   [dim |-> 0, data |-> [f |-> <<0, 0>>, tail |-> 0]],
   [dim |-> 0, data |-> [f |-> <<1>>, tail |-> 0]],
   [dim |-> 0, data |-> [f |-> <<1, 0>>, tail |-> 2]],
   [dim |-> 3, data |-> [f |-> <<1, 0>>, tail |-> 0]]}

\* the largest k a caller asks for
MaxK == 3

Knn(P) == \E params \in P : \E r \in knn(db, params) : Call("knn", params, r)

\* tag 1 gets dimension 2 from the first upsertVector; tag 2 never has one;
\* createNode attaches one float under tag 1
NextKnn ==
  \/ CreateNode({[PlainNode EXCEPT !.vectors = <<[tagId |-> 1, vector |-> Vec4]>>]}, {0})
  \/ UpsertVector({[id |-> n, tagId |-> 1, vector |-> [dim |-> 0, data |-> [f |-> v, tail |-> 0]]] :
                     n \in 1 .. 3, v \in KnnVectors}, {0})
  \/ Knn({[tagId |-> t, query |-> q, k |-> k] : t \in {1, 2}, q \in KnnQueries, k \in 0 .. MaxK})

SpecKnn == Init /\ [][NextKnn]_vars

\* the nodes with a vector under tag t
NodesUnderTag(s, t) == {r[1] : r \in {x \in DOMAIN s.nodeVectors : x[2] = t}}

MinOf(a, b) == IF a < b THEN a ELSE b

\* the last call is a knn with k > 0 on a tag that has a dimension
KnnOnTag == last.op = "knn" /\ last.arg.k > 0 /\ Has(db.vecTagMeta, last.arg.tagId)

\* the query of the last call has the dimension of its tag
KnnQueryOfDim ==
  /\ 4 * Len(last.arg.query.data.f) + last.arg.query.data.tail
       = 4 * db.vecTagMeta[last.arg.tagId]
  /\ last.arg.query.dim \in {0, db.vecTagMeta[last.arg.tagId]}

\* C26 (KNN result shape): a knn with k > 0 and a query of the dimension of the
\* tag returns exactly min(k, n) hits, n being the number of nodes with a vector
\* under the tag; no node is in two hits; the scores are non-increasing.
C26_KnnShape ==
  (KnnOnTag /\ KnnQueryOfDim)
    => /\ last.ok
       /\ LET hits == last.ret.hits
          IN /\ Len(hits) = MinOf(last.arg.k, Cardinality(NodesUnderTag(db, last.arg.tagId)))
             /\ \A i, j \in DOMAIN hits : i # j => hits[i].id # hits[j].id
             /\ \A i, j \in DOMAIN hits : i < j => ~Greater(hits[j].score, hits[i].score)

\* the scores of a sequence of candidates, largest first
RECURSIVE ScoresDescending(_)
ScoresDescending(cands) ==
  IF cands = <<>> THEN <<>>
  ELSE LET i == CHOOSE i \in DOMAIN cands :
                  \A j \in DOMAIN cands : ~Greater(cands[j].score, cands[i].score)
       IN <<cands[i].score>> \o ScoresDescending(EraseAt(cands, i))

\* C27 (KNN top-k optimality): the scores a successful knn with k > 0 returns
\* are, as a multiset, the min(k, c) largest of the scores of the c candidate
\* vectors of the tag (the rows of 4 * dim bytes), whatever the order in which
\* the scan meets them and whichever of them are equal.
C27_KnnTopK ==
  (KnnOnTag /\ last.ok)
    => LET cands == Candidates(db, last.arg.tagId, last.arg.query.data.f,
                               db.vecTagMeta[last.arg.tagId])
       IN ScoresDescending(last.ret.hits)
            = SubSeq(ScoresDescending(cands), 1, MinOf(last.arg.k, Len(cands)))

\* knn(k = 1) returned the one score-1 hit although the scan met a candidate of
\* score 0 and one of score -1 before it
C27_Witness ==
  /\ KnnOnTag /\ last.ok /\ last.arg.k = 1
  /\ last.arg.query.data.f = <<1, 0>>
  /\ Has(db.nodeVectors, <<1, 1>>) /\ db.nodeVectors[<<1, 1>>].f = <<0, 0>>
  /\ Has(db.nodeVectors, <<2, 1>>) /\ db.nodeVectors[<<2, 1>>].f = <<-1, 0>>
  /\ Has(db.nodeVectors, <<3, 1>>) /\ db.nodeVectors[<<3, 1>>].f = <<1, 0>>
  /\ last.ret.hits = <<Cand(3, [sgn |-> 1, num |-> 1, den |-> 1])>>

\* C28 (KNN empty results): knn with k = 0 returns an empty hit list for any tag
\* and query, and knn on a tag without a vecTagMeta entry returns an empty hit
\* list for any query bytes; neither raises.
C28_KnnEmpty ==
  (last.op = "knn" /\ (last.arg.k = 0 \/ ~Has(db.vecTagMeta, last.arg.tagId)))
    => last.ok /\ last.ret.hits = <<>>

\* C29 (KNN query validation): a knn with k > 0 on a tag of dimension dim raises
\* for every query whose byte length is not 4 * dim or whose declared non-zero
\* dimension is not dim; and no knn changes the store.
C29_KnnValidation ==
  [][last'.op = "knn"
       => /\ db' = db
          /\ (last'.arg.k > 0 /\ Has(db.vecTagMeta, last'.arg.tagId))
               => LET q == last'.arg.query
                      dim == db.vecTagMeta[last'.arg.tagId]
                  IN (4 * Len(q.data.f) + q.data.tail # 4 * dim \/ q.dim \notin {0, dim})
                       => ~last'.ok /\ last'.err \in {"InvalidArgument", "DimMismatch"}]_vars

\* knn raised for a query of two floats that declares dimension 3, on tag 1 of
\* dimension 2 with three vectors stored
C29_Witness ==
  /\ KnnOnTag /\ ~last.ok
  /\ last.arg.query.dim = 3 /\ Len(last.arg.query.data.f) = 2
  /\ db.vecTagMeta[last.arg.tagId] = 2
  /\ Cardinality(NodesUnderTag(db, last.arg.tagId)) = 3

\* C30 (KNN zero-norm convention): in a successful knn with k > 0, a query of
\* zero norm gives every hit the score 0, a stored vector of zero norm gets the
\* score 0 for any query, and such vectors are hits like the others: the number
\* of hits is min(k, n), n being the number of nodes with a vector under the tag.
C30_KnnZeroNorm ==
  (KnnOnTag /\ last.ok)
    => LET hits == last.ret.hits
           t == last.arg.tagId
       IN /\ (\A i \in DOMAIN last.arg.query.data.f : last.arg.query.data.f[i] = 0)
               => \A h \in DOMAIN hits : hits[h].score = ZeroScore
          /\ \A h \in DOMAIN hits :
               (\A i \in DOMAIN db.nodeVectors[<<hits[h].id, t>>].f :
                  db.nodeVectors[<<hits[h].id, t>>].f[i] = 0)
                 => hits[h].score = ZeroScore
          /\ Len(hits) = MinOf(last.arg.k, Cardinality(NodesUnderTag(db, t)))

\* -------------------------------------------------------------------------
\* Readers next to a writer: the read transactions of degree and listAdjacency
\* -------------------------------------------------------------------------

\* what a two-scan read returns when its first scan reads sOut and its second sIn
ReadOf(op, sOut, sIn, params) ==
  IF op = "degree" THEN degree(sOut, sIn, params).ret
  ELSE [items |-> listAdjacency(sOut, sIn, params)]

\* thread t runs the first lambda call of degree or listAdjacency: its Txn
\* reads the committed state and is gone when the lambda returns
FirstScan(t, op, P) ==
  /\ thr[t].pc = "idle"
  /\ \E params \in P :
       thr' = [thr EXCEPT ![t] = [pc |-> "reading", op |-> op, arg |-> params,
                                  snap |-> db, seen |-> {db}]]
  /\ UNCHANGED <<db, last>>

\* thread t runs the second lambda call, in a Txn of its own, and returns
SecondScan(t) ==
  /\ thr[t].pc = "reading"
  /\ last' = [op |-> thr[t].op, ok |-> TRUE, err |-> "none", arg |-> thr[t].arg,
              ret |-> ReadOf(thr[t].op, thr[t].snap, db, thr[t].arg)]
  /\ thr' = [thr EXCEPT ![t] = Idle]
  /\ UNCHANGED db

\* thread 1 adds and deletes a self-loop on node 1 and an edge from 1 to 2
\* while thread 2 reads node 1
NextSnapshot ==
  \/ AddEdge({[src |-> 1, dst |-> b, meta |-> [typeId |-> 1, props |-> <<>>]] : b \in {1, 2}}, {0})
  \/ DeleteEdge({[edgeId |-> e] : e \in EdgeIds}, {0})
  \/ FirstScan(2, "degree", {[node |-> 1, direction |-> d] : d \in {"Out", "Both"}})
  \/ FirstScan(2, "listAdjacency",
               {[node |-> 1, direction |-> d, limit |-> m] : d \in {"In", "Both"}, m \in {0, 1}})
  \/ SecondScan(2)

SpecSnapshot == Init /\ [][NextSnapshot]_vars

\* C31 (reader snapshot consistency): what degree and listAdjacency return
\* equals what the call computes on one single committed state, one of those
\* that were the committed state at some moment between its first and its
\* last read, also when a writer commits in between.
C31_ReaderSnapshot ==
  [][\A t \in Threads :
       (thr[t].pc = "reading" /\ thr'[t].pc = "idle")
         => \E s \in thr[t].seen : last'.ret = ReadOf(thr[t].op, s, s, thr[t].arg)]_vars

\* -------------------------------------------------------------------------
\* Two threads that write: the write transactions of the Store calls
\* -------------------------------------------------------------------------

\* the three calls that issue an id, the engine not failing
WriteOf(op, s, arg) ==
  CASE op = "createNode" -> createNode(s, arg, 0)
    [] op = "addEdge" -> addEdge(s, arg, 0)
    [] op = "getOrCreateId" -> getOrCreateId(s, arg.ns, arg.name, arg.createIfMissing, 0)

\* the sequence the call draws its id from
SeqOf(op, arg) ==
  CASE op = "createNode" -> "nodeSeq"
    [] op = "addEdge" -> "edgeSeq"
    [] op = "getOrCreateId" -> SeqKey(arg.ns)

SeqBound(op) ==
  CASE op = "createNode" -> MaxNodeSeq
    [] op = "addEdge" -> MaxEdgeSeq
    [] op = "getOrCreateId" -> MaxDictSeq

\* an engine that lets a write transaction begin next to another one
WriterMutex_none(t) == TRUE

\* mdb_txn_begin of a write transaction returns only while no other write
\* transaction of the environment is open
WriterMutex(t) == \A u \in Threads \ {t} : thr[u].pc # "writing"

\* thread t enters a Store call; during: the threads that are inside a call
WriteCall(t, op, P) ==
  /\ thr[t].pc \in {"idle", "done"}
  /\ \E arg \in P :
       thr' = [thr EXCEPT ![t] =
                 [pc |-> "called", op |-> op, arg |-> arg,
                  during |-> {u \in Threads \ {t} : thr[u].pc \in {"called", "writing"}}]]
  /\ UNCHANGED <<db, last>>

\* Txn::Txn(env, true): the transaction starts on the committed state
TxnBegin(t) ==
  /\ thr[t].pc = "called"
  /\ WriterMutex(t)
  /\ read_u64_or(db, SeqOf(thr[t].op, thr[t].arg), 0) < SeqBound(thr[t].op)
  /\ thr' = [thr EXCEPT ![t] = [pc |-> "writing", op |-> thr[t].op, arg |-> thr[t].arg,
                                during |-> thr[t].during, snap |-> db]]
  /\ UNCHANGED <<db, last>>

\* the body of the call on what its transaction sees, then commit() or ~Txn
TxnEnd(t) ==
  /\ thr[t].pc = "writing"
  /\ \E o \in {WriteOf(thr[t].op, thr[t].snap, thr[t].arg)} :
       /\ db' = RunTxn(db, o).st
       /\ last' = [op |-> thr[t].op, ok |-> o.ok, err |-> o.err, arg |-> thr[t].arg,
                   ret |-> o.ret]
       /\ thr' = [thr EXCEPT ![t] = [pc |-> "done", op |-> thr[t].op, arg |-> thr[t].arg,
                                     during |-> thr[t].during, ok |-> o.ok, ret |-> o.ret]]

NextWriters ==
  \/ \E t \in Threads :
       WriteCall(t, "getOrCreateId",
                 {[ns |-> "labels", name |-> n, createIfMissing |-> TRUE] : n \in {"a", "b"}})
  \/ \E t \in Threads : WriteCall(t, "createNode", {PlainNode})
  \/ \E t \in Threads :
       WriteCall(t, "addEdge", {[src |-> 1, dst |-> 2, meta |-> [typeId |-> 1, props |-> <<>>]]})
  \/ \E t \in Threads : TxnBegin(t)
  \/ \E t \in Threads : TxnEnd(t)

SpecWriters == Init /\ [][NextWriters]_vars

\* the results two threads hold agree with each other and with the store s
Serialized(s, th) ==
  /\ \A t, u \in Threads :
       (t # u /\ th[t].pc = "done" /\ th[u].pc = "done" /\ th[t].ok /\ th[u].ok
          /\ th[t].op = th[u].op)
         => IF th[t].op = "getOrCreateId"
              THEN (th[t].arg = th[u].arg) <=> (th[t].ret.id = th[u].ret.id)
            ELSE th[t].ret.id # th[u].ret.id
  /\ Cardinality(DOMAIN s.labelsByName) = read_u64_or(s, "labelSeq", 0)
  /\ Cardinality(DOMAIN s.labelIds) = read_u64_or(s, "labelSeq", 0)
  /\ Cardinality(DOMAIN s.nodes) = read_u64_or(s, "nodeSeq", 0)
  /\ Cardinality(DOMAIN s.edgesById) = read_u64_or(s, "edgeSeq", 0)

\* C32 (serialized writers): when the calls of two threads overlap, each
\* getOrCreate(name, true), createNode and addEdge takes effect on the state the
\* call before it committed: a new id is the committed sequence plus one and
\* the sequence is raised to it, a name that is already committed gets its
\* stored id and nothing is written; so two getOrCreate of one new name return
\* the same id with one entry and one increment, and two createNode or two
\* addEdge return distinct ids.
C32_SerializedWriters ==
  [][/\ \A t \in Threads :
          (thr[t].pc = "writing" /\ thr'[t].pc = "done")
            => LET op == thr[t].op
                   a == thr[t].arg
                   seq == read_u64_or(db, SeqOf(op, a), 0)
               IN /\ last'.ok
                  /\ IF op = "getOrCreateId" /\ Has(db.labelsByName, a.name)
                       THEN last'.ret.id = db.labelsByName[a.name] /\ db' = db
                     ELSE /\ last'.ret.id = seq + 1
                          /\ read_u64_or(db', SeqOf(op, a), 0) = seq + 1
                          /\ op = "getOrCreateId"
                               => /\ db'.labelsByName = Put(db.labelsByName, a.name, seq + 1)
                                  /\ db'.labelIds = Put(db.labelIds, seq + 1, a.name)
     /\ Serialized(db', thr')]_vars

\* both threads asked for the new label "a", thread 2 while thread 1 was inside
\* its call; both got id 1 and the namespace holds one entry
C32_Witness ==
  /\ thr[1].pc = "done" /\ thr[2].pc = "done"
  /\ thr[1].op = "getOrCreateId" /\ thr[2].op = "getOrCreateId"
  /\ thr[1].arg.name = "a" /\ thr[2].arg.name = "a"
  /\ thr[2].during = {1}
  /\ thr[1].ret.id = 1 /\ thr[2].ret.id = 1
  /\ read_u64_or(db, "labelSeq", 0) = 1
  /\ DOMAIN db.labelsByName = {"a"}

\* -------------------------------------------------------------------------
\* The Txn objects of one scope
\* -------------------------------------------------------------------------

\* the most transactions the scopes of the model begin
MaxTxn == 3

\* the Txn objects of the scope
Objs == {"a", "b"}

\* thread 1 in a scope with Txn objects: obj[x].txn_ is the handle of x (0 is
\* nullptr, h > 0 the h-th transaction begun), eng[h] is that transaction in the
\* engine: what it has written (w), and how often it was ended
InScope(th) ==
  IF th[1].pc = "scope" THEN th[1]
  ELSE [pc |-> "scope", obj |-> [x \in Objs |-> [st |-> "none", txn_ |-> 0]], eng |-> <<>>]

\* mdb_txn_commit or mdb_txn_abort on the handle h; on nullptr neither is called
EndTxn(eng, h) == IF h = 0 THEN eng ELSE [eng EXCEPT ![h].ended = @ + 1]

\* a commit() that leaves the handle in place
ClearedByCommit_keeps(h) == h

\* commit(): txn_ = nullptr, before the throw
ClearedByCommit(h) == 0

ScopeStep(op, x, ok, obj, eng, s) ==
  /\ thr' = [thr EXCEPT ![1] = [pc |-> "scope", obj |-> obj, eng |-> eng]]
  /\ db' = s
  /\ last' = [op |-> op, ok |-> ok, err |-> IF ok THEN "none" ELSE "Engine",
              arg |-> [name |-> x], ret |-> Void]

\* Txn::Txn(env, rw): a write transaction begins only when no other is open
Txn_ctor(x, rw) ==
  LET S == InScope(thr)
  IN /\ S.obj[x].st # "alive"
     /\ Len(S.eng) < MaxTxn
     /\ rw => \A h \in DOMAIN S.eng : ~(S.eng[h].rw /\ S.eng[h].ended = 0)
     /\ ScopeStep("Txn", x, TRUE,
                  [S.obj EXCEPT ![x] = [st |-> "alive", txn_ |-> Len(S.eng) + 1]],
                  Append(S.eng, [w |-> db, rw |-> rw, ended |-> 0]), db)

\* a write through x.get(): the sequence of node ids is advanced
Txn_put(x) ==
  LET S == InScope(thr)
      h == S.obj[x].txn_
  IN /\ S.obj[x].st = "alive" /\ h # 0
     /\ S.eng[h].rw /\ S.eng[h].ended = 0
     /\ read_u64_or(S.eng[h].w, "nodeSeq", 0) < MaxNodeSeq
     /\ ScopeStep("put", x, TRUE, S.obj,
                  [S.eng EXCEPT ![h].w = next_node_id(@).st], db)

\* Txn::commit(): mdb_txn_commit returns rc (EINVAL for nullptr)
Txn_commit_call(x, rc) ==
  LET S == InScope(thr)
      h == S.obj[x].txn_
  IN /\ S.obj[x].st = "alive"
     /\ h # 0 => S.eng[h].ended < 2
     /\ ScopeStep("commit", x, h # 0 /\ rc = 0,
                  [S.obj EXCEPT ![x].txn_ = ClearedByCommit(h)],
                  EndTxn(S.eng, h),
                  IF h # 0 /\ S.eng[h].rw THEN Txn_commit(db, S.eng[h].w, rc) ELSE db)

\* Txn::abort()
Txn_abort(x) ==
  LET S == InScope(thr)
  IN /\ S.obj[x].st = "alive"
     /\ ScopeStep("abort", x, TRUE, [S.obj EXCEPT ![x].txn_ = 0],
                  EndTxn(S.eng, S.obj[x].txn_), db)

\* Txn::~Txn(): x leaves scope, by a return or by an exception
Txn_dtor_call(x) ==
  LET S == InScope(thr)
      h == S.obj[x].txn_
  IN /\ S.obj[x].st = "alive"
     /\ ScopeStep("~Txn", x, TRUE, [S.obj EXCEPT ![x] = [st |-> "gone", txn_ |-> h]],
                  EndTxn(S.eng, h),
                  IF h # 0 /\ S.eng[h].ended = 0 THEN Txn_dtor(db, S.eng[h].w) ELSE db)

\* Txn::Txn(Txn &&other): x is constructed from y
Txn_move_ctor(x, y) ==
  LET S == InScope(thr)
  IN /\ S.obj[x].st # "alive" /\ S.obj[y].st = "alive"
     /\ ScopeStep("Txn(Txn&&)", x, TRUE,
                  [S.obj EXCEPT ![x] = [st |-> "alive", txn_ |-> S.obj[y].txn_],
                                ![y].txn_ = 0],
                  S.eng, db)

\* Txn::operator=(Txn &&other): x = std::move(y), y may be x itself
Txn_move_assign(x, y) ==
  LET S == InScope(thr)
  IN /\ S.obj[x].st = "alive" /\ S.obj[y].st = "alive"
     /\ IF x = y THEN ScopeStep("operator=", x, TRUE, S.obj, S.eng, db)
        ELSE ScopeStep("operator=", x, TRUE,
                       [S.obj EXCEPT ![x].txn_ = S.obj[y].txn_, ![y].txn_ = 0],
                       EndTxn(S.eng, S.obj[x].txn_), db)

NextTxn ==
  \/ \E x \in Objs, rw \in BOOLEAN : Txn_ctor(x, rw)
  \/ \E x \in Objs : Txn_put(x)
  \/ \E x \in Objs, rc \in {0, 1} : Txn_commit_call(x, rc)
  \/ \E x \in Objs : Txn_abort(x)
  \/ \E x \in Objs : Txn_dtor_call(x)
  \/ \E x, y \in Objs : Txn_move_ctor(x, y)
  \/ \E x, y \in Objs : Txn_move_assign(x, y)

SpecTxn == Init /\ [][NextTxn]_vars

\* the live objects whose handle is h
HoldersOf(S, h) == {x \in Objs : S.obj[x].st = "alive" /\ S.obj[x].txn_ = h}

\* C33 (transaction scope): the committed state changes only in a commit()
\* that succeeds, and then to what that transaction wrote, so what a Txn wrote
\* is never visible when it leaves scope, normally or by an exception, or is
\* aborted or fails to commit; and every transaction is ended exactly once: a
\* transaction is open exactly while one live object holds its handle, no two
\* objects hold the same handle, and once ended (by commit() succeeding or
\* failing, abort(), the destructor or a move assignment) it is never ended
\* again by the destructor, a second abort() or a moved-from object.
C33_TxnScope ==
  [][LET S == InScope(thr)
         T == InScope(thr')
     IN /\ db' # db
             => /\ last'.op = "commit" /\ last'.ok
                /\ \E h \in DOMAIN S.eng :
                     /\ S.eng[h].ended = 0 /\ T.eng[h].ended = 1
                     /\ S.eng[h].rw /\ db' = S.eng[h].w
        /\ \A h \in DOMAIN T.eng :
             /\ T.eng[h].ended <= 1
             /\ Cardinality(HoldersOf(T, h)) <= 1
             /\ (T.eng[h].ended = 0) <=> (HoldersOf(T, h) # {})]_vars

\* both objects have left scope after three transactions: one committed its
\* write, one failed to commit, one was never committed; each ended once
C33_Witness ==
  /\ thr[1].pc = "scope"
  /\ \A x \in Objs : thr[1].obj[x].st = "gone"
  /\ Len(thr[1].eng) = 3
  /\ \A h \in DOMAIN thr[1].eng : thr[1].eng[h].ended = 1
  /\ read_u64_or(db, "nodeSeq", 0) = 1
  /\ \E h \in DOMAIN thr[1].eng : read_u64_or(thr[1].eng[h].w, "nodeSeq", 0) = 2

\* -------------------------------------------------------------------------
\* listAdjacency against a reference list
\* -------------------------------------------------------------------------

\* the rows of n in one index as Adjacency values, in ascending
\* (typeId, neighbor, edgeId) order
RECURSIVE Ascending(_, _)
Ascending(rows, dir) ==
  IF rows = {} THEN <<>>
  ELSE LET r == CHOOSE r \in rows : \A o \in rows :
                  \/ o = r
                  \/ r[2] < o[2]
                  \/ (r[2] = o[2] /\ r[3] < o[3])
                  \/ (r[2] = o[2] /\ r[3] = o[3] /\ r[4] < o[4])
       IN <<[neighborId |-> r[3], edgeId |-> r[4], typeId |-> r[2], direction |-> dir]>>
            \o Ascending(rows \ {r}, dir)

OutList(s, n) == Ascending({k \in s.edgesBySrcType : k[1] = n}, "Out")
InList(s, n) == Ascending({k \in s.edgesByDstType : k[1] = n}, "In")

FirstOf(list, m) == SubSeq(list, 1, MinOf(m, Len(list)))

\* limits above 0 that a caller passes
AdjLimits == 1 .. MaxEdgeSeq + 1

\* edges of three types (0 among them) between nodes 1 and 2, self-loops and
\* parallel edges included, added and deleted
NextAdjacency ==
  \/ AddEdge({[src |-> a, dst |-> b, meta |-> [typeId |-> ty, props |-> <<>>]] :
                a \in {1, 2}, b \in {1, 2}, ty \in 0 .. 2}, {0})
  \/ DeleteEdge({[edgeId |-> e] : e \in EdgeIds}, {0})

SpecAdjacency == Init /\ [][NextAdjacency]_vars

\* C34 (listAdjacency as a reference list): in every committed state, for every
\* node n and every limit m > 0, listAdjacency(n, Both, m) is the first m
\* elements of the Out rows of n in ascending (typeId, neighbor, edgeId) order
\* followed by the In rows of n in that order, without deduplication, and
\* listAdjacency(n, Out, m) and listAdjacency(n, In, m) are the first m Out
\* rows and the first m In rows.
C34_AdjacencyReference ==
  \A n \in AskedNodes, m \in AdjLimits :
    /\ listAdjacency(db, db, [node |-> n, direction |-> "Both", limit |-> m])
         = FirstOf(OutList(db, n) \o InList(db, n), m)
    /\ listAdjacency(db, db, [node |-> n, direction |-> "Out", limit |-> m])
         = FirstOf(OutList(db, n), m)
    /\ listAdjacency(db, db, [node |-> n, direction |-> "In", limit |-> m])
         = FirstOf(InList(db, n), m)

\* node 1 has two self-loops and listAdjacency(1, Both, 3) lists edge 1 twice,
\* as an Out row and as the In row that fills the budget
C34_Witness ==
  /\ Len(OutList(db, 1)) = 2 /\ Len(InList(db, 1)) = 2
  /\ LET got == listAdjacency(db, db, [node |-> 1, direction |-> "Both", limit |-> 3])
     IN /\ Len(got) = 3
        /\ got[3].direction = "In"
        /\ \E i \in 1 .. 2 : got[i].edgeId = got[3].edgeId

\* -------------------------------------------------------------------------
\* getNodeProps: the order of the lookup in the two tiers
\* -------------------------------------------------------------------------

\* two shapes of node: keys 3 and 1 hot in that order and key 2 cold; key 2 hot
\* and keys 3 and 1 cold
HotFirstNode ==
  [labels |-> <<>>, hotProps |-> <<[keyId |-> 3, val |-> Bool_T], [keyId |-> 1, val |-> I64_1]>>,
   coldProps |-> <<[keyId |-> 2, val |-> Bool_T]>>, vectors |-> <<>>]

ColdFirstNode ==
  [labels |-> <<>>, hotProps |-> <<[keyId |-> 2, val |-> I64_1]>>,
   coldProps |-> <<[keyId |-> 3, val |-> I64_1], [keyId |-> 1, val |-> Bool_T]>>,
   vectors |-> <<>>]

\* upserts on either node that store key 1 or key 2 in the other tier, or
\* unset key 1
TierUpserts ==
  {[id |-> n, setHot |-> h, setCold |-> c, unsetKeys |-> u] :
     n \in {1, 2},
     h \in {<<>>, <<[keyId |-> 2, val |-> I64_1]>>},
     c \in {<<>>, <<[keyId |-> 1, val |-> Bool_T]>>},
     u \in {<<>>, <<1>>}}

\* the reads: of a node that exists, with no key list or with a list that
\* names keys out of order and a key (4) stored nowhere
PropReads ==
  {[id |-> n, keyIds |-> ks] : n \in {1, 2}, ks \in {<<>>, <<2, 1>>, <<4, 1, 3>>, <<3, 2>>}}

NextPropReads ==
  \/ CreateNode({HotFirstNode, ColdFirstNode}, {0})
  \/ UpsertNodeProps(TierUpserts, {0})
  \/ GetNodeProps(PropReads)

SpecPropReads == Init /\ [][NextPropReads]_vars

\* the cold rows of node id in state s, as properties
ColdOf(s, id) ==
  {[keyId |-> k[2], val |-> s.nodeColdProps[k]] : k \in {r \in DOMAIN s.nodeColdProps : r[1] = id}}

\* what a read with a key list owes for key k: the first hot property of key k,
\* else the cold row of key k, else nothing
OwedFor(s, id, k) ==
  LET hot == s.nodes[id].hotProps
      at == {i \in DOMAIN hot : hot[i].keyId = k}
  IN IF at # {} THEN {hot[CHOOSE i \in at : \A j \in at : i <= j]}
     ELSE {p \in ColdOf(s, id) : p.keyId = k}

\* props answers the key list keyIds: it is cut into one slot per requested key,
\* in request order, slot j holding what is owed for keyIds[j]
AnswersKeys(s, id, keyIds, props) ==
  LET owed(j) == OwedFor(s, id, keyIds[j])
      \* the position in props of the answer to the j-th key
      pos(j) == Cardinality({i \in 1 .. j : owed(i) # {}})
  IN /\ Len(props) = pos(Len(keyIds))
     /\ \A j \in DOMAIN keyIds : owed(j) # {} => owed(j) = {props[pos(j)]}

\* C35 (getNodeProps lookup order): a getNodeProps that completes with an
\* empty key list returns the hot properties of the header, in header order,
\* followed by exactly the cold rows of that node in ascending key id; with a
\* key list it returns, per requested key in request order, the hot value when
\* the key is hot, else the cold value when there is one, and nothing for a key
\* stored in neither tier.
C35_LookupOrder ==
  [][(last'.op = "getNodeProps" /\ last'.ok)
       => LET id == last'.arg.id
              keyIds == last'.arg.keyIds
              props == last'.ret.props
              hot == db.nodes[id].hotProps
          IN IF keyIds = <<>>
               THEN /\ Len(props) = Len(hot) + Cardinality(ColdOf(db, id))
                    /\ SubSeq(props, 1, Len(hot)) = hot
                    /\ {props[i] : i \in Len(hot) + 1 .. Len(props)} = ColdOf(db, id)
                    /\ \A i, j \in Len(hot) + 1 .. Len(props) :
                         i < j => props[i].keyId < props[j].keyId
             ELSE AnswersKeys(db, id, keyIds, props)]_vars

\* key 1 of node 1 is stored in both tiers with different values and node 2 has
\* cold rows of its own; the read of node 1 for keys 4, 1, 3 returned the hot
\* value of key 1, then that of key 3
C35_Witness ==
  /\ last.op = "getNodeProps" /\ last.ok
  /\ last.arg = [id |-> 1, keyIds |-> <<4, 1, 3>>]
  /\ Has(db.nodeColdProps, <<1, 1>>) /\ db.nodeColdProps[<<1, 1>>] = Bool_T
  /\ Has(db.nodeColdProps, <<2, 3>>)
  /\ last.ret.props = <<[keyId |-> 1, val |-> I64_1], [keyId |-> 3, val |-> Bool_T]>>

\* -------------------------------------------------------------------------
\* updateEdgeProps on an edge id that edgesById does not hold
\* -------------------------------------------------------------------------

\* on the first edge or on the id MaxEdgeSeq + 1, which is never issued: set
\* key 1 or key 2 (twice, the last value to stay), unset key 1
EdgePropUpdates ==
  {[edgeId |-> e, setProps |-> sp, unsetKeys |-> u] :
     e \in {1, MaxEdgeSeq + 1},
     sp \in {<<>>, <<[keyId |-> 1, val |-> I64_1]>>,
             <<[keyId |-> 2, val |-> I64_1], [keyId |-> 2, val |-> Bool_T]>>},
     u \in {<<>>, <<1>>}}

NextEdgeProps ==
  \/ AddEdge({[src |-> 1, dst |-> 2,
               meta |-> [typeId |-> 1, props |-> <<[keyId |-> 1, val |-> Bool_T]>>]]}, {0})
  \/ DeleteEdge({[edgeId |-> 1]}, {0})
  \/ UpdateEdgeProps(EdgePropUpdates, {0})

SpecEdgeProps == Init /\ [][NextEdgeProps]_vars

\* getEdgeProps(e) in state s returns key k with value v, read with no key list
\* and read by key
ReturnsEdgeProp(s, e, k, v) ==
  LET all == getEdgeProps(s, [edgeId |-> e, keyIds |-> <<>>])
      one == getEdgeProps(s, [edgeId |-> e, keyIds |-> <<k>>])
  IN /\ all.ok /\ one.ok
     /\ \E i \in DOMAIN all.ret.props : all.ret.props[i] = [keyId |-> k, val |-> v]
     /\ one.ret.props = <<[keyId |-> k, val |-> v]>>

\* C36, as stated: updateEdgeProps(e, set, unset) completes whether or not
\* edgesById holds e, and getEdgeProps(e) then returns every key of set with
\* the value set.
C36_SetRowsReturned ==
  [][last'.op = "updateEdgeProps"
       => /\ last'.ok
          /\ \A k \in KeysOf(last'.arg.setProps) :
               ReturnsEdgeProp(db', last'.arg.edgeId, k, SetValue(last'.arg.setProps, k))]_vars

\* C36 (updateEdgeProps is best-effort): updateEdgeProps(e, set, unset)
\* completes whether or not edgesById holds e, an unset key without a row
\* included; getEdgeProps(e) then returns every key of set that is not in unset
\* with the value set, returns no key of unset, and returns the other rows of e
\* as they were.
C36_BestEffort ==
  [][last'.op = "updateEdgeProps"
       => LET e == last'.arg.edgeId
              set == last'.arg.setProps
              unset == {last'.arg.unsetKeys[i] : i \in DOMAIN last'.arg.unsetKeys}
              after == getEdgeProps(db', [edgeId |-> e, keyIds |-> <<>>]).ret.props
              before == getEdgeProps(db, [edgeId |-> e, keyIds |-> <<>>]).ret.props
          IN /\ last'.ok
             /\ \A k \in KeysOf(set) \ unset : ReturnsEdgeProp(db', e, k, SetValue(set, k))
             /\ KeysOf(after) \cap unset = {}
             /\ \A i \in DOMAIN before :
                  before[i].keyId \notin KeysOf(set) \cup unset
                    => \E j \in DOMAIN after : after[j] = before[i]
             /\ KeysOf(after) \subseteq KeysOf(before) \cup KeysOf(set)]_vars

\* the edge id of the call was never issued; the call set key 2 and unset key
\* 1, and the row of key 2 is the only row under that id
C36_Witness ==
  /\ last.op = "updateEdgeProps" /\ last.ok
  /\ read_u64_or(db, "edgeSeq", 0) < last.arg.edgeId
  /\ last.arg.unsetKeys = <<1>>
  /\ KeysOf(last.arg.setProps) = {2}
  /\ {k \in DOMAIN db.edgeProps : k[1] = last.arg.edgeId} = {<<last.arg.edgeId, 2>>}
  /\ db.edgeProps[<<last.arg.edgeId, 2>>] = Bool_T

\* -------------------------------------------------------------------------
\* Cursors: mdb_cursor_open and mdb_cursor_close along the exit paths
\* -------------------------------------------------------------------------

\* One scan of a plan: the table of the cursor, the rows its loop visits in key
\* order, and what can throw inside the loop: "decode" (decode_value on the row
\* read), "cursor_del" (mdb_cursor_del), "mirror_del" (mdb_del of the mirrored
\* index row). An operation is run as the sequence of its scans.
Scan_(tbl, rows, faults) == [tbl |-> tbl, rows |-> rows, faults |-> faults]

\* the rows of a property or vector table under one major id
RowsUnder(t, major) == SortKeys({k \in DOMAIN t : k[1] = major})

\* deleteEdge's scan for the typeId: the rows of ref.src up to the row of the
\* edge, where the loop breaks
RECURSIVE UpToMatch(_, _)
UpToMatch(rows, ref) ==
  IF rows = <<>> THEN <<>>
  ELSE IF Head(rows)[3] = ref.dst /\ Head(rows)[4] = ref.id THEN <<Head(rows)>>
  ELSE <<Head(rows)>> \o UpToMatch(Tail(rows), ref)

\* the scans of deleteNode, in the order of the code: the src index, the dst
\* index (the rows that the mirrored deletes of the first scan left), edgeProps
\* once per collected edge id, nodeColdProps, nodeVectors
deleteNode_scans(s, params) ==
  LET srcRows == {k \in s.edgesBySrcType : k[1] = params.id}
      mirrored == {key_edge_by_dst_type_be(k[3], k[2], k[1], k[4]) : k \in srcRows}
      dstRows == {k \in s.edgesByDstType : k[1] = params.id} \ mirrored
      eids == SortSet({k[4] : k \in srcRows \cup dstRows})
  IN <<Scan_("edgesBySrcType", SortKeys(srcRows), {"cursor_del", "mirror_del"}),
       Scan_("edgesByDstType", SortKeys(dstRows), {"cursor_del", "mirror_del"})>>
     \o [i \in 1 .. Len(eids) |->
           Scan_("edgeProps", RowsUnder(s.edgeProps, eids[i]), {"cursor_del"})]
     \o <<Scan_("nodeColdProps", RowsUnder(s.nodeColdProps, params.id), {"cursor_del"}),
          Scan_("nodeVectors", RowsUnder(s.nodeVectors, params.id), {"cursor_del"})>>

deleteEdge_scans(s, params) ==
  (IF Has(s.edgesById, params.edgeId)
     THEN LET ref == s.edgesById[params.edgeId]
          IN <<Scan_("edgesBySrcType",
                     UpToMatch(SortKeys({k \in s.edgesBySrcType : k[1] = ref.src}), ref), {})>>
   ELSE <<>>)
  \o <<Scan_("edgeProps", RowsUnder(s.edgeProps, params.edgeId), {"cursor_del"})>>

\* the reads open a cursor only when the key list is empty
getNodeProps_scans(s, params) ==
  IF params.keyIds = <<>>
    THEN <<Scan_("nodeColdProps", RowsUnder(s.nodeColdProps, params.id), {"decode"})>>
  ELSE <<>>

getEdgeProps_scans(s, params) ==
  IF params.keyIds = <<>>
    THEN <<Scan_("edgeProps", RowsUnder(s.edgeProps, params.edgeId), {"decode"})>>
  ELSE <<>>

ScansOf(op, s, params) ==
  CASE op = "getNodeProps" -> getNodeProps_scans(s, params)
    [] op = "getEdgeProps" -> getEdgeProps_scans(s, params)
    [] op = "deleteNode" -> deleteNode_scans(s, params)
    [] op = "deleteEdge" -> deleteEdge_scans(s, params)

\* the operation as a whole, the engine not failing
WholeOf(op, s, params) ==
  CASE op = "getNodeProps" -> getNodeProps(s, params)
    [] op = "getEdgeProps" -> getEdgeProps(s, params)
    [] op = "deleteNode" -> deleteNode(s, params, 0)
    [] op = "deleteEdge" -> deleteEdge(s, params, 0)

\* the operation left by an exception: the Txn destructor aborts, the store is
\* as before; opened and closed count the calls of mdb_cursor_open that
\* succeeded and the calls of mdb_cursor_close
Thrown(t, err) ==
  /\ thr' = [thr EXCEPT ![t] = [pc |-> "exit", how |-> "throw", op |-> thr[t].op,
                                opened |-> thr[t].opened, closed |-> thr[t].closed]]
  /\ last' = [op |-> thr[t].op, ok |-> FALSE, err |-> err, arg |-> thr[t].arg, ret |-> Void]
  /\ UNCHANGED db

\* thread t enters the operation: Txn tx(...) and what precedes the first scan
\* (getNodeProps reads nodes[id] and throws when it is missing)
OpBegin(t, op, P) ==
  /\ thr[t].pc = "idle"
  /\ \E params \in P :
       IF op = "getNodeProps" /\ ~Has(db.nodes, params.id)
         THEN /\ thr' = [thr EXCEPT ![t] = [pc |-> "exit", how |-> "throw", op |-> op,
                                            opened |-> 0, closed |-> 0]]
              /\ last' = [op |-> op, ok |-> FALSE, err |-> "NotFound", arg |-> params,
                          ret |-> Void]
              /\ UNCHANGED db
       ELSE /\ thr' = [thr EXCEPT ![t] = [pc |-> "between", op |-> op, arg |-> params,
                                          plan |-> ScansOf(op, db, params),
                                          opened |-> 0, closed |-> 0]]
            /\ UNCHANGED <<db, last>>

\* mdb_cursor_open of the next scan; when it fails the code throws, no cursor
\* having been made
Cursor_open(t, rc) ==
  /\ thr[t].pc = "between" /\ thr[t].plan # <<>>
  /\ IF rc = 0
       THEN /\ thr' = [thr EXCEPT ![t].pc = "scanning", ![t].opened = @ + 1]
            /\ UNCHANGED <<db, last>>
     ELSE Thrown(t, "Engine")

\* one turn of the loop on the row under the cursor: it goes on to the next
\* row, or what it calls fails and the throw leaves the function from inside
\* the loop
Cursor_row(t, fault) ==
  /\ thr[t].pc = "scanning" /\ Head(thr[t].plan).rows # <<>>
  /\ fault \in Head(thr[t].plan).faults \cup {"none"}
  /\ IF fault = "none"
       THEN /\ thr' = [thr EXCEPT ![t].plan = <<[Head(@) EXCEPT !.rows = Tail(@)]>> \o Tail(@)]
            /\ UNCHANGED <<db, last>>
     ELSE Thrown(t, IF fault = "decode" THEN "Corrupt" ELSE "Engine")

\* the loop has ended: mdb_cursor_close(cur)
Cursor_close(t) ==
  /\ thr[t].pc = "scanning" /\ Head(thr[t].plan).rows = <<>>
  /\ thr' = [thr EXCEPT ![t].pc = "between", ![t].plan = Tail(@), ![t].closed = @ + 1]
  /\ UNCHANGED <<db, last>>

\* after the last scan: the writes commit, the read returns
OpReturn(t) ==
  /\ thr[t].pc = "between" /\ thr[t].plan = <<>>
  /\ \E o \in {WholeOf(thr[t].op, db, thr[t].arg)} :
       /\ db' = RunTxn(db, o).st
       /\ last' = [op |-> thr[t].op, ok |-> o.ok, err |-> o.err, arg |-> thr[t].arg,
                   ret |-> o.ret]
  /\ thr' = [thr EXCEPT ![t] = [pc |-> "exit", how |-> "return", op |-> thr[t].op,
                                opened |-> thr[t].opened, closed |-> thr[t].closed]]

\* the caller goes on
OpLeft(t) ==
  /\ thr[t].pc = "exit"
  /\ thr' = [thr EXCEPT ![t] = Idle]
  /\ UNCHANGED <<db, last>>

\* one thread: it creates nodes with a cold property and a vector, adds edges
\* with a property (a self-loop among them), and runs the four operations that
\* scan, step by step
NextCursors ==
  \/ thr[1].pc = "idle" /\ CreateNode({FullNode}, {0})
  \/ thr[1].pc = "idle"
       /\ AddEdge({[src |-> 1, dst |-> b,
                    meta |-> [typeId |-> 1, props |-> <<[keyId |-> 1, val |-> I64_1]>>]] :
                     b \in {1, 2}}, {0})
  \/ OpBegin(1, "getNodeProps", {[id |-> 1, keyIds |-> ks] : ks \in {<<>>, <<2>>}})
  \/ OpBegin(1, "getEdgeProps", {[edgeId |-> 1, keyIds |-> ks] : ks \in {<<>>, <<1>>}})
  \/ OpBegin(1, "deleteNode", {[id |-> n] : n \in {1, 2}})
  \/ OpBegin(1, "deleteEdge", {[edgeId |-> e] : e \in EdgeIds})
  \/ \E rc \in {0, 1} : Cursor_open(1, rc)
  \/ \E fault \in {"none", "decode", "cursor_del", "mirror_del"} : Cursor_row(1, fault)
  \/ Cursor_close(1)
  \/ OpReturn(1)
  \/ OpLeft(1)

SpecCursors == Init /\ [][NextCursors]_vars

\* C37 (cursor release): when a Store operation is left, by return or by
\* exception, every cursor it opened has been closed: mdb_cursor_close was
\* called once for every mdb_cursor_open that succeeded.
C37_CursorRelease ==
  \A t \in Threads : thr[t].pc = "exit" => thr[t].closed = thr[t].opened

\* the exits that return, and the throws that happen outside a loop, leave no
\* cursor open
C37_ClosedOutsideLoops ==
  \A t \in Threads :
    (thr[t].pc = "exit" /\ (thr[t].how = "return" \/ last.err = "NotFound"))
      => thr[t].closed = thr[t].opened

\* -------------------------------------------------------------------------
\* The RPC handlers of the single operations, and a batch against them
\* -------------------------------------------------------------------------

\* StardustImpl::createNode .. StardustImpl::updateEdgeProps: what one RPC call
\* of a write operation does to the store, r being its params. Each handler
\* converts its params in the order of its code and then makes one Store call;
\* the results it fills in afterwards (createNode reads the names of the header
\* back, addEdge copies the EdgeRef) write nothing.
StardustImpl_call(s, r) ==
  CASE r.which = "createNode" ->
         Then(fromRpcLabelSet(s, r.labels, TRUE), LAMBDA labels :
           IF ~labels.ok THEN labels
           ELSE Then(fromRpcProperties(labels.st, r.hotProps, TRUE), LAMBDA hp :
             IF ~hp.ok THEN hp
             ELSE Then(fromRpcProperties(hp.st, r.coldProps, TRUE), LAMBDA cp :
               IF ~cp.ok THEN cp
               ELSE Then(fromRpcTaggedVectors(cp.st, r.vectors, TRUE), LAMBDA vecs :
                 IF ~vecs.ok THEN vecs
                 ELSE StoreCall(vecs.st, createNode(vecs.st,
                        [labels |-> labels.val, hotProps |-> hp.val,
                         coldProps |-> cp.val, vectors |-> vecs.val], 0))))))
    [] r.which = "upsertNodeProps" ->
         Then(fromRpcProperties(s, r.setHot, TRUE), LAMBDA sp :
           IF ~sp.ok THEN sp
           ELSE Then(fromRpcProperties(sp.st, r.setCold, TRUE), LAMBDA sc :
             IF ~sc.ok THEN sc
             ELSE Then(ResolveNames(sc.st, "propKeys", r.unsetKeys, FALSE), LAMBDA uk :
               IF ~uk.ok THEN uk
               ELSE StoreCall(uk.st, upsertNodeProps(uk.st,
                      [id |-> r.id, setHot |-> sp.val, setCold |-> sc.val,
                       unsetKeys |-> uk.val], 0)))))
    [] r.which = "setNodeLabels" ->
         Then(ResolveNames(s, "labels", r.addLabels, TRUE), LAMBDA add :
           IF ~add.ok THEN add
           ELSE Then(ResolveNames(add.st, "labels", r.removeLabels, FALSE), LAMBDA rm :
             IF ~rm.ok THEN rm
             ELSE StoreCall(rm.st, setNodeLabels(rm.st,
                    [id |-> r.id, addLabels |-> add.val, removeLabels |-> rm.val], 0))))
    [] r.which = "upsertVector" ->
         Then(fromRpcVector(r.vector), LAMBDA vector :
           Then(StoreCall(s, getOrCreateVecTagId(s, r.tag, TRUE, vector.dim # 0,
                                                 vector.dim, 0)), LAMBDA tag :
             IF ~tag.ok THEN tag
             ELSE StoreCall(tag.st, upsertVector(tag.st,
                    [id |-> r.id, tagId |-> tag.val.id, vector |-> vector], 0))))
    [] r.which = "deleteVector" ->
         Then(StoreCall(s, getOrCreateVecTagId(s, r.tag, FALSE, FALSE, 0, 0)), LAMBDA tag :
           IF ~tag.ok THEN tag
           ELSE StoreCall(tag.st, deleteVector(tag.st, [id |-> r.id, tagId |-> tag.val.id], 0)))
    [] r.which = "addEdge" ->
         Then(StoreCall(s, getOrCreateRelTypeId(s, r.meta.type, TRUE, 0)), LAMBDA typeId :
           IF ~typeId.ok THEN typeId
           ELSE Then(fromRpcProperties(typeId.st, r.meta.props, TRUE), LAMBDA props :
             IF ~props.ok THEN props
             ELSE StoreCall(props.st, addEdge(props.st,
                    [src |-> r.src, dst |-> r.dst,
                     meta |-> [typeId |-> typeId.val.id, props |-> props.val]], 0))))
    [] r.which = "updateEdgeProps" ->
         Then(fromRpcProperties(s, r.setProps, TRUE), LAMBDA sp :
           IF ~sp.ok THEN sp
           ELSE Then(ResolveNames(sp.st, "propKeys", r.unsetKeys, FALSE), LAMBDA uk :
             IF ~uk.ok THEN uk
             ELSE StoreCall(uk.st, updateEdgeProps(uk.st,
                    [edgeId |-> r.edgeId, setProps |-> sp.val, unsetKeys |-> uk.val], 0))))

\* the RPC calls of ops made one after the other from state s, each on the
\* store the call before it left; the caller stops at the first that fails
RECURSIVE IssuedInOrder(_, _)
IssuedInOrder(s, ops) ==
  IF ops = <<>> THEN Res(TRUE, s, Void, "none")
  ELSE Then(StardustImpl_call(s, Head(ops)), LAMBDA r :
    IF ~r.ok THEN r
    ELSE Then(IssuedInOrder(r.st, Tail(ops)), LAMBDA rest :
           Res(rest.ok, rest.st, Void, rest.err)))

\* batches of one op, and of two ops the second of which may need what the
\* first makes (node 2 for upsertNodeProps, node 1 for setNodeLabels, the
\* property key of addEdge)
SeqBatches ==
  LET ops == {o \in BatchOps : o.which \in {"createNode", "upsertNodeProps", "setNodeLabels", "addEdge"}}
  IN {<<a>> : a \in ops \cup SingleOps} \cup {<<a, b>> : a \in ops, b \in ops}

NextBatchSeq ==
  \/ WriteBatch(SeqBatches)

SpecBatchSeq == Init /\ [][NextBatchSeq]_vars

\* C38 (a successful batch equals sequential application): a writeBatch whose
\* ops all succeed leaves every table as the RPC calls of the same ops, made
\* one by one in list order from the state before the batch, leave it, and
\* those calls all succeed; so each op has seen what the ops before it wrote,
\* and all of it is committed when the batch returns.
C38_BatchIsSequential ==
  [][(last'.op = "writeBatch" /\ last'.ok)
       => /\ IssuedInOrder(db, last'.arg.ops).ok
          /\ db' = IssuedInOrder(db, last'.arg.ops).st]_vars

\* a batch of createNode and setNodeLabels on node 1 completed on the empty
\* store: node 1 is there with the property, the cold row and the vector of the
\* first op and with label "b" in place of label "a", as the second op left it
C38_Witness ==
  /\ last.op = "writeBatch" /\ last.ok
  /\ Len(last.arg.ops) = 2
  /\ last.arg.ops[1].which = "createNode" /\ last.arg.ops[2].which = "setNodeLabels"
  /\ read_u64_or(db, "nodeSeq", 0) = 1
  /\ Has(db.nodes, 1)
  /\ db.nodes[1].labels = <<db.labelsByName["b"]>>
  /\ db.labelIndex = {<<db.labelsByName["b"], 1>>}
  /\ Len(db.nodes[1].hotProps) = 1
  /\ \E k \in DOMAIN db.nodeColdProps : k[1] = 1
  /\ \E k \in DOMAIN db.nodeVectors : k[1] = 1

\* -------------------------------------------------------------------------
\* The codec of values, properties, label sets and node headers
\* -------------------------------------------------------------------------

\* Bytes are 0 .. 255 and a byte string is a sequence of them. A 64-bit
\* quantity is the pair <<high word, low word>> of its big-endian halves; the
\* casts between int64_t, double and uint64_t keep the bit pattern, so an I64
\* and an F64 carry that pair. A Bytes value carries its byte string here.
put_be32(x) == <<x \div 16777216, (x \div 65536) % 256, (x \div 256) % 256, x % 256>>
read_be32(p) == ((p[1] * 256 + p[2]) * 256 + p[3]) * 256 + p[4]
put_be64(x) == put_be32(x[1]) \o put_be32(x[2])
read_be64(p) == <<read_be32(p), read_be32(SubSeq(p, 5, 8))>>

\* the bytes from position n + 1 on: p += n
Skip(p, n) == SubSeq(p, n + 1, Len(p))

\* a decoder returns the value and the bytes it has not consumed, or throws
Decoded(val, rest) == [ok |-> TRUE, val |-> val, rest |-> rest]
Corrupt == [ok |-> FALSE, val |-> 0, rest |-> <<>>]

ValueTag(t) ==
  CASE t = "I64" -> 0 [] t = "F64" -> 1 [] t = "Bool" -> 2
    [] t = "TextId" -> 3 [] t = "Bytes" -> 4 [] t = "Null" -> 5

encode_value(v) ==
  CASE v.t \in {"I64", "F64"} -> <<ValueTag(v.t)>> \o put_be64(v.v)
    [] v.t = "Bool" -> <<ValueTag(v.t), IF v.v THEN 1 ELSE 0>>
    [] v.t = "TextId" -> <<ValueTag(v.t)>> \o put_be32(v.v)
    [] v.t = "Bytes" -> <<ValueTag(v.t)>> \o put_be32(Len(v.v)) \o v.v
    [] OTHER -> <<ValueTag("Null")>>

decode_value(b) ==
  IF b = <<>> THEN Corrupt
  ELSE LET tag == Head(b)
           p == Tail(b)
       IN CASE tag = 0 \/ tag = 1 ->
                 IF Len(p) < 8 THEN Corrupt
                 ELSE Decoded([t |-> IF tag = 0 THEN "I64" ELSE "F64", v |-> read_be64(p)],
                              Skip(p, 8))
            [] tag = 2 ->
                 IF Len(p) < 1 THEN Corrupt
                 ELSE Decoded([t |-> "Bool", v |-> p[1] # 0], Skip(p, 1))
            [] tag = 3 ->
                 IF Len(p) < 4 THEN Corrupt
                 ELSE Decoded([t |-> "TextId", v |-> read_be32(p)], Skip(p, 4))
            [] tag = 4 ->
                 IF Len(p) < 4 THEN Corrupt
                 ELSE IF Len(p) - 4 < read_be32(p) THEN Corrupt
                 ELSE Decoded([t |-> "Bytes", v |-> SubSeq(p, 5, 4 + read_be32(p))],
                              Skip(p, 4 + read_be32(p)))
            [] tag = 5 -> Decoded([t |-> "Null", v |-> 0], p)
            [] OTHER -> Corrupt

encode_property(p) == put_be32(p.keyId) \o encode_value(p.val)

decode_property(b) ==
  IF Len(b) < 4 THEN Corrupt
  ELSE LET v == decode_value(Skip(b, 4))
       IN IF ~v.ok THEN Corrupt
          ELSE Decoded([keyId |-> read_be32(b), val |-> v.val], v.rest)

\* the loop over the ids of a label set
RECURSIVE put_label_ids(_)
put_label_ids(ids) ==
  IF ids = <<>> THEN <<>> ELSE put_be32(Head(ids)) \o put_label_ids(Tail(ids))

encode_label_set(ls) == put_be32(Len(ls)) \o put_label_ids(ls)

\* the loop for (i = 0; i < n; ++i) of decode_label_set: n ids are still to read
RECURSIVE read_label_ids(_, _)
read_label_ids(b, n) ==
  IF n = 0 THEN Decoded(<<>>, b)
  ELSE IF Len(b) < 4 THEN Corrupt
  ELSE LET rest == read_label_ids(Skip(b, 4), n - 1)
       IN IF ~rest.ok THEN Corrupt
          ELSE Decoded(<<read_be32(b)>> \o rest.val, rest.rest)

decode_label_set(b) ==
  IF Len(b) < 4 THEN Corrupt ELSE read_label_ids(Skip(b, 4), read_be32(b))

RECURSIVE put_properties(_)
put_properties(props) ==
  IF props = <<>> THEN <<>> ELSE encode_property(Head(props)) \o put_properties(Tail(props))

encode_node_header(h) ==
  put_be64(h.id) \o encode_label_set(h.labels) \o put_be32(Len(h.hotProps))
    \o put_properties(h.hotProps)

\* the loop for (i = 0; i < n; ++i) of decode_node_header
RECURSIVE read_properties(_, _)
read_properties(b, n) ==
  IF n = 0 THEN Decoded(<<>>, b)
  ELSE LET pr == decode_property(b)
       IN IF ~pr.ok THEN Corrupt
          ELSE LET rest == read_properties(pr.rest, n - 1)
               IN IF ~rest.ok THEN Corrupt
                  ELSE Decoded(<<pr.val>> \o rest.val, rest.rest)

\* bytes left over after the last property are an error
decode_node_header(b) ==
  IF Len(b) < 8 THEN Corrupt
  ELSE LET labels == decode_label_set(Skip(b, 8))
       IN IF ~labels.ok THEN Corrupt
          ELSE IF Len(labels.rest) < 4 THEN Corrupt
          ELSE LET props == read_properties(Skip(labels.rest, 4), read_be32(labels.rest))
               IN IF ~props.ok THEN Corrupt
                  ELSE IF props.rest # <<>> THEN Corrupt
                  ELSE Decoded([id |-> read_be64(b), labels |-> labels.val,
                                hotProps |-> props.val], <<>>)

\* ---- byte strings and headers ----

\* byte strings are put together from at most MaxPieces pieces: the bytes 2, 4
\* and 5 (the tags of Bool, Bytes and Null; as a count or a Bool byte, values
\* other than 0 and 1), the 32-bit words 0 and 1, and the 64-bit word 1
MaxPieces == 6

Pieces ==
  {<<2>>, <<4>>, <<5>>, <<0, 0, 0, 0>>, <<0, 0, 0, 1>>, <<0, 0, 0, 0, 0, 0, 0, 1>>}

\* the byte string a decode step has built so far
BytesSoFar == IF last.op = "decode" THEN last.arg.x ELSE <<>>

\* one more piece is appended and decode_node_header runs on the byte string
DecodeBytes ==
  /\ last.op \in {"init", "decode"}
  /\ last.op = "decode" => last.arg.pieces < MaxPieces
  /\ \E piece \in Pieces :
       LET x == BytesSoFar \o piece
       IN last' = [op |-> "decode", ok |-> decode_node_header(x).ok, err |-> "none",
                   arg |-> [x |-> x, pieces |-> IF last.op = "decode"
                                                  THEN last.arg.pieces + 1 ELSE 1],
                   ret |-> Void]
  /\ UNCHANGED <<db, thr>>

\* the values of the six alternatives: the I64 1, the F64 1.0, both Bools,
\* TextId 1, the empty and a two-byte Bytes, Null
CodecValues ==
  {[t |-> "I64", v |-> <<0, 1>>], [t |-> "F64", v |-> <<1072693248, 0>>],
   [t |-> "Bool", v |-> TRUE], [t |-> "Bool", v |-> FALSE], [t |-> "TextId", v |-> 1],
   [t |-> "Bytes", v |-> <<>>], [t |-> "Bytes", v |-> <<2, 5>>], [t |-> "Null", v |-> 0]}

\* headers with an id below and above 2^32, up to two labels (in any order) and
\* up to two hot properties
Headers ==
  LET props == {[keyId |-> k, val |-> v] : k \in {1}, v \in CodecValues}
  IN {[id |-> id, labels |-> ls, hotProps |-> hp] :
        id \in {<<0, 1>>, <<1, 0>>},
        ls \in {<<>>, <<1>>, <<2, 1>>},
        hp \in {<<>>} \cup {<<a>> : a \in props} \cup {<<a, b>> : a \in props, b \in props}}

\* encode_node_header of a header
EncodeHeader ==
  /\ last.op = "init"
  /\ \E h \in Headers :
       last' = [op |-> "encode_node_header", ok |-> TRUE, err |-> "none",
                arg |-> [h |-> h], ret |-> [bytes |-> encode_node_header(h)]]
  /\ UNCHANGED <<db, thr>>

\* back to the empty byte string
DecodeAfresh ==
  /\ last.op # "init"
  /\ last' = [op |-> "init", ok |-> TRUE, err |-> "none", arg |-> Void, ret |-> Void]
  /\ UNCHANGED <<db, thr>>

NextCodec ==
  \/ DecodeBytes
  \/ EncodeHeader
  \/ DecodeAfresh

SpecCodec == Init /\ [][NextCodec]_vars

\* a decoder takes x when it decodes it and consumes all of it
Takes(r) == r.ok /\ r.rest = <<>>

\* every byte string that a decoder takes is what the encoder makes of the
\* decoded value
DecodeThenEncode ==
  last.op = "decode"
    => LET x == last.arg.x
       IN /\ Takes(decode_node_header(x)) => encode_node_header(decode_node_header(x).val) = x
          /\ Takes(decode_property(x)) => encode_property(decode_property(x).val) = x
          /\ Takes(decode_value(x)) => encode_value(decode_value(x).val) = x
          /\ Takes(decode_label_set(x)) => encode_label_set(decode_label_set(x).val) = x

\* every header is what the decoder makes of its encoding, and the encoding
\* with one more byte, whatever the byte, is rejected
EncodeThenDecode ==
  last.op = "encode_node_header"
    => /\ decode_node_header(last.ret.bytes) = Decoded(last.arg.h, <<>>)
       /\ \A byte \in 0 .. 255 : ~decode_node_header(last.ret.bytes \o <<byte>>).ok

\* C39 (codec round-trip): for every byte string x that the decoder accepts as
\* a node header, a property, a value or a label set, encode(decode(x)) = x;
\* for every NodeHeader h, decode_node_header(encode_node_header(h)) = h; and
\* a header encoding followed by any one byte is rejected.
C39_CodecRoundTrip == DecodeThenEncode /\ EncodeThenDecode

\* -------------------------------------------------------------------------
\* Edges whose endpoints have no header
\* -------------------------------------------------------------------------

\* endpoint ids: 0 and MaxNodeSeq + 1 are never issued by createNode, 1 is
\* issued by the first createNode and may be deleted again
EndIds == {0, 1, MaxNodeSeq + 1}

NextDangling ==
  \/ CreateNode({PlainNode}, {0})
  \/ AddEdge({[src |-> a, dst |-> b, meta |-> [typeId |-> ty, props |-> <<>>]] :
                a \in EndIds, b \in {0, 1}, ty \in {0, 1}}, {0})
  \/ DeleteNode({[id |-> n] : n \in EndIds}, {0})

SpecDangling == Init /\ [][NextDangling]_vars

\* degree and listAdjacency (no limit) of node n in direction d, read in state s
DegreeIn(s, n, d) == degree(s, s, [node |-> n, direction |-> d]).ret.count
AdjacencyIn(s, n, d) == listAdjacency(s, s, [node |-> n, direction |-> d, limit |-> 0])

\* how often the list names the edge e with neighbour nb in direction d
Listed(list, e, nb, d) ==
  Cardinality({i \in DOMAIN list :
                 list[i].edgeId = e /\ list[i].neighborId = nb /\ list[i].direction = d})

\* the rows of the three edge tables of state s that have n as an endpoint
EdgeRowsAt(s, n) ==
  {k \in s.edgesBySrcType \cup s.edgesByDstType : k[1] = n \/ k[3] = n}
    \cup {<<e>> : e \in {x \in DOMAIN s.edgesById :
                           s.edgesById[x].src = n \/ s.edgesById[x].dst = n}}

\* C40 (addEdge does not require its endpoints): an addEdge completes whatever
\* its src and dst, headers or none; the edge is then one more in degree(src,
\* Out), degree(dst, In) and in Both of each, and listAdjacency lists it once
\* under src as Out and once under dst as In; and a deleteNode of an id, header
\* or none, leaves no row with that id as an endpoint in edgesById,
\* edgesBySrcType and edgesByDstType.
C40_DanglingEndpoints ==
  [][/\ last'.op = "addEdge"
          => LET src == last'.arg.src
                 dst == last'.arg.dst
                 loop == IF src = dst THEN 2 ELSE 1
             IN /\ last'.ok
                /\ Has(db'.edgesById, last'.ret.id)
                /\ DegreeIn(db', src, "Out") = DegreeIn(db, src, "Out") + 1
                /\ DegreeIn(db', dst, "In") = DegreeIn(db, dst, "In") + 1
                /\ DegreeIn(db', src, "Both") = DegreeIn(db, src, "Both") + loop
                /\ DegreeIn(db', dst, "Both") = DegreeIn(db, dst, "Both") + loop
                /\ Listed(AdjacencyIn(db', src, "Out"), last'.ret.id, dst, "Out") = 1
                /\ Listed(AdjacencyIn(db', dst, "In"), last'.ret.id, src, "In") = 1
                /\ Listed(AdjacencyIn(db', src, "Both"), last'.ret.id, dst, "Out") = 1
                /\ Listed(AdjacencyIn(db', dst, "Both"), last'.ret.id, src, "In") = 1
     /\ last'.op = "deleteNode"
          => /\ last'.ok
             /\ EdgeRowsAt(db', last'.arg.id) = {}
             /\ DegreeIn(db', last'.arg.id, "Both") = 0
             /\ AdjacencyIn(db', last'.arg.id, "Both") = <<>>]_vars

\* no node was ever created; two edges were added, and the deleteNode of 0 has
\* left the edge tables without a row of 0 and with the rows of the one edge
\* that does not touch 0
C40_Witness ==
  /\ last.op = "deleteNode" /\ last.ok /\ last.arg.id = 0
  /\ read_u64_or(db, "nodeSeq", 0) = 0
  /\ read_u64_or(db, "edgeSeq", 0) = 2
  /\ Cardinality(DOMAIN db.edgesById) = 1
  /\ \A e \in DOMAIN db.edgesById :
       /\ db.edgesById[e].src = MaxNodeSeq + 1 /\ db.edgesById[e].dst = 1
       /\ db.edgesBySrcType = {<<MaxNodeSeq + 1, 1, 1, e>>}
       /\ db.edgesByDstType = {<<1, 1, MaxNodeSeq + 1, e>>}

====
